---- MODULE Spec2Model ----
(***************************************************************************)
(* Model of qv-ollama-sdk: the conversation log, the tool registry and the *)
(* orchestration service (request, capability fallback, decode, tool       *)
(* execution, resolve request) with the client's chat entry points.        *)
(*                                                                         *)
(* Python values are encoded as follows.                                   *)
(*   Optional[T]   a set with at most one element: None is {}, v is {v}    *)
(*   str           a sequence of tokens (one-character strings, or the     *)
(*                 atomic markers "<think>" and "</think>")                *)
(*   list          a sequence                                              *)
(*   dict          a function from keys to values (<<>> is the empty dict) *)
(* The usage field of a GenerationResponse is None when it was not passed, *)
(* and otherwise Some(o) with o the optional prompt_eval_count of the      *)
(* reply (Some(None) stands for the default {} of response.get).           *)
(***************************************************************************)
EXTENDS Integers, Sequences, FiniteSets, TLC

\* ------------------------------------------------------------------------
\* Bounds of the model
\* ------------------------------------------------------------------------
MaxToolCalls == 2    \* tool calls carried by one reply
MaxChunks == 2       \* chunks delivered by one backend stream
MaxCalls == 4        \* calls made on a Conversation used on its own
MaxLen == 4          \* tokens in the content of a reply decoded on its own
MaxTurns == 3        \* calls made on one OllamaChatClient

\* ------------------------------------------------------------------------
\* Optional values and Python truthiness
\* ------------------------------------------------------------------------
None == {}
Some(x) == {x}
The(o) == CHOOSE x \in o : TRUE

\* truthiness of an Optional[str] / Optional[list]: None and empty are falsy
Truthy(o) == o # None /\ The(o) # <<>>

\* dict.get(key, default) on an optional field
GetOr(o, default) == IF o = None THEN default ELSE The(o)

RECURSIVE Concat(_)
Concat(ss) == IF ss = <<>> THEN <<>> ELSE Head(ss) \o Concat(Tail(ss))

\* sequences over S of length at most n without repeated elements
DistinctSeqs(S, n) ==
  UNION { { s \in [1..k -> S] : \A i, j \in 1..k : i # j => s[i] # s[j] } : k \in 0..n }

\* ------------------------------------------------------------------------
\* Python values handed to and returned by tool functions
\* ------------------------------------------------------------------------
PyInt(n) == [t |-> "int", v |-> n]
PyFloat(n) == [t |-> "float", v |-> n]     \* the float n.0
PyStr(s) == [t |-> "str", v |-> s]

Digits == <<"0", "1", "2", "3", "4", "5", "6", "7", "8", "9">>

\* the character SUPERSCRIPT TWO (U+00B2), one token: str.isdigit() accepts it,
\* int() and float() do not
Superscript2 == "^2"

IsDecimalChar(c) == \E i \in 1..10 : Digits[i] = c
IsDigitChar(c) == IsDecimalChar(c) \/ c = Superscript2
DigitVal(c) == (CHOOSE i \in 1..10 : Digits[i] = c) - 1

\* str.isdigit()
IsDigit(s) == s # <<>> /\ \A i \in 1..Len(s) : IsDigitChar(s[i])

\* int(s) succeeds, for a string s that passed isdigit()
IntParses(s) == \A i \in 1..Len(s) : IsDecimalChar(s[i])

RECURSIVE IntOf(_)
IntOf(s) == IF s = <<>> THEN 0
            ELSE 10 * IntOf(SubSeq(s, 1, Len(s) - 1)) + DigitVal(s[Len(s)])

\* float(s) succeeds (over the characters used here: digits, "-", letters and
\* SUPERSCRIPT TWO)
FloatParses(s) == \/ s # <<>> /\ IntParses(s)
                  \/ Len(s) >= 2 /\ s[1] = "-" /\ IntParses(Tail(s))
FloatOf(s) == IF s[1] = "-" THEN 0 - IntOf(Tail(s)) ELSE IntOf(s)

RECURSIVE NatStr(_)
NatStr(n) == IF n < 10 THEN <<Digits[n + 1]>>
             ELSE NatStr(n \div 10) \o <<Digits[(n % 10) + 1]>>
IntStr(n) == IF n < 0 THEN <<"-">> \o NatStr(0 - n) ELSE NatStr(n)

\* str(value) for an Optional Python value
PyStrOf(o) ==
  IF o = None THEN <<"None">>
  ELSE LET x == The(o) IN
       CASE x.t = "int" -> IntStr(x.v)
         [] x.t = "float" -> IntStr(x.v) \o <<".", "0">>
         [] OTHER -> x.v

\* ------------------------------------------------------------------------
\* Tool functions supplied by the caller (examples/tool_calling_example.py)
\* A call outcome is [ok |-> TRUE, value |-> Optional value]
\*                or [ok |-> FALSE, msg |-> str(exception)]
\* ------------------------------------------------------------------------
Returned(v) == [ok |-> TRUE, value |-> Some(v), msg |-> <<>>]
Raised(m) == [ok |-> FALSE, value |-> None, msg |-> m]

\* a + b
PyAdd(x, y) ==
  CASE x.t = "int" /\ y.t = "int" -> Returned(PyInt(x.v + y.v))
    [] x.t \in {"int", "float"} /\ y.t \in {"int", "float"} -> Returned(PyFloat(x.v + y.v))
    [] x.t = "str" /\ y.t = "str" -> Returned(PyStr(x.v \o y.v))
    [] OTHER -> Raised(<<"unsupported operand type(s) for +">>)

add_two_numbers(kwargs) ==
  IF DOMAIN kwargs = {"a", "b"} THEN PyAdd(kwargs["a"], kwargs["b"])
  ELSE Raised(<<"add_two_numbers() got unexpected or missing arguments">>)

\* a function returning its only argument
identity(kwargs) ==
  IF DOMAIN kwargs = {"x"} THEN Returned(kwargs["x"])
  ELSE Raised(<<"identity() got unexpected or missing arguments">>)

\* a function whose body is `raise ValueError()`: str(e) is the empty string
raise_bare(kwargs) == Raised(<<>>)

ToolNames == {"add_two_numbers"}

CallFunction(name, kwargs) ==
  CASE name = "identity" -> identity(kwargs)
    [] name = "raise_bare" -> raise_bare(kwargs)
    [] OTHER -> add_two_numbers(kwargs)

\* ------------------------------------------------------------------------
\* ToolRegistry (domain/models.py)
\* ------------------------------------------------------------------------
ToolResult(id, fn, result, error) ==
  [tool_call_id |-> id, function_name |-> fn, result |-> result, error |-> error]

\* the per-argument cast of execute_tool_call
CastArg(value) ==
  IF value.t = "str" /\ IsDigit(value.v) THEN PyInt(IntOf(value.v))
  ELSE IF value.t = "str"
       THEN IF FloatParses(value.v) THEN PyFloat(FloatOf(value.v)) ELSE value
       ELSE value

CastArgs(args) == [key \in DOMAIN args |-> CastArg(args[key])]

\* int(value) raises ValueError for a string that passed isdigit()
CastRaises(value) == value.t = "str" /\ IsDigit(value.v) /\ ~IntParses(value.v)

\* the try block: cast every argument, then call the function; with several
\* arguments that cannot be cast, the first in dict order is the one reported
Invoke(name, args) ==
  IF \E key \in DOMAIN args : CastRaises(args[key])
  THEN LET key == CHOOSE k \in DOMAIN args : CastRaises(args[k]) IN
       Raised(<<"invalid literal for int() with base 10: '">> \o args[key].v \o <<"'">>)
  ELSE CallFunction(name, CastArgs(args))

\* variant of execute_tool_call that reports an unknown function without an error
execute_tool_call_SilentUnknown(registry, tool_call) ==
  LET function_name == tool_call.function.name IN
  IF function_name \notin registry
  THEN ToolResult(tool_call.id, function_name, None, None)
  ELSE LET out == Invoke(function_name, tool_call.function.arguments) IN
       IF out.ok
       THEN ToolResult(tool_call.id, function_name, out.value, None)
       ELSE ToolResult(tool_call.id, function_name, None, Some(out.msg))

\* variant of execute_tool_call that swallows an exception of the function
execute_tool_call_SwallowRaise(registry, tool_call) ==
  LET function_name == tool_call.function.name IN
  IF function_name \notin registry
  THEN ToolResult(tool_call.id, function_name, None,
                  Some(<<"Function '", function_name, "' not found in registry">>))
  ELSE LET out == Invoke(function_name, tool_call.function.arguments) IN
       ToolResult(tool_call.id, function_name, out.value, None)

\* registry: the set of registered function names (ToolRegistry.functions)
execute_tool_call(registry, tool_call) ==
  LET function_name == tool_call.function.name IN
  IF function_name \notin registry
  THEN ToolResult(tool_call.id, function_name, None,
                  Some(<<"Function '", function_name, "' not found in registry">>))
  ELSE LET out == Invoke(function_name, tool_call.function.arguments) IN
       IF out.ok
       THEN ToolResult(tool_call.id, function_name, out.value, None)
       ELSE ToolResult(tool_call.id, function_name, None, Some(out.msg))

\* ------------------------------------------------------------------------
\* Message and Conversation (domain/models.py)
\* ------------------------------------------------------------------------
Message(role, content, tool_calls, tool_call_id) ==
  [role |-> role, content |-> content, tool_calls |-> tool_calls,
   tool_call_id |-> tool_call_id]

\* Message.to_dict: the record sent to the backend
MessageToDict(m) ==
  [role |-> m.role,
   content |-> m.content,
   tool_calls |->
     IF Truthy(m.tool_calls)
     THEN Some([i \in 1..Len(The(m.tool_calls)) |->
                  [function |-> [name |-> The(m.tool_calls)[i].function.name,
                                 arguments |-> The(m.tool_calls)[i].function.arguments]]])
     ELSE None,
   tool_call_id |->
     IF m.role = "tool" /\ m.tool_call_id # None /\ The(m.tool_call_id) # ""
     THEN m.tool_call_id ELSE None]

get_message_history(messages) == [i \in 1..Len(messages) |-> MessageToDict(messages[i])]

add_system_message(messages, content) ==
  Append(messages, Message("system", content, None, None))
add_user_message(messages, content) ==
  Append(messages, Message("user", content, None, None))
\* variant of add_assistant_message that overwrites a trailing assistant message
add_assistant_message_Replace(messages, content) ==
  IF messages # <<>> /\ messages[Len(messages)].role = "assistant"
  THEN [messages EXCEPT ![Len(messages)] = Message("assistant", content, None, None)]
  ELSE Append(messages, Message("assistant", content, None, None))

add_assistant_message(messages, content) ==
  Append(messages, Message("assistant", content, None, None))
add_tool_message(messages, content, tool_call_id) ==
  Append(messages, Message("tool", content, None, Some(tool_call_id)))

\* assistant_msg = add_assistant_message(content); assistant_msg.tool_calls = tool_calls
AddAssistantWithToolCalls(messages, content, tool_calls) ==
  Append(messages, Message("assistant", content, tool_calls, None))

ToolResultContent(result) ==
  IF Truthy(result.error)
  THEN <<"Error executing ", result.function_name, ": ">> \o The(result.error)
  ELSE PyStrOf(result.result)

RECURSIVE add_tool_results(_, _)
add_tool_results(messages, tool_results) ==
  IF tool_results = <<>> THEN messages
  ELSE LET result == Head(tool_results) IN
       add_tool_results(
         add_tool_message(messages, ToolResultContent(result),
                          GetOr(result.tool_call_id, "")),
         Tail(tool_results))

\* variant of clear that keeps the system messages
clear_KeepSystem(messages) ==
  SelectSeq(messages, LAMBDA m : m.role = "system")

\* Conversation.clear
clear(messages) == <<>>

\* ------------------------------------------------------------------------
\* ModelParameters (domain/models.py): a dict of the explicitly set keys
\* ------------------------------------------------------------------------
\* variant of ApiKey without the mapping to the backend's names
ApiKey_Identity(key) == key

\* api_param_mapping.get(key, key)
ApiKey(key) == IF key = "max_tokens" THEN "num_predict" ELSE key

\* to_dict over self._parameters.items(), the (key, value) pairs in insertion order:
\* params[api_key] = value, so a later pair overwrites an earlier one with the same
\* backend key
RECURSIVE to_dict(_)
to_dict(items) ==
  IF items = <<>> THEN <<>>
  ELSE LET params == to_dict(SubSeq(items, 1, Len(items) - 1))
           item == items[Len(items)]
           api_key == ApiKey(item.key) IN
       [k \in DOMAIN params \cup {api_key} |->
          IF k = api_key THEN item.value ELSE params[k]]

\* self._parameters[name] = value: a new key goes last, a key already set keeps its
\* place and takes the new value
SetParameter(items, name, value) ==
  IF \E i \in 1..Len(items) : items[i].key = name
  THEN [i \in 1..Len(items) |->
          IF items[i].key = name THEN [key |-> name, value |-> value] ELSE items[i]]
  ELSE Append(items, [key |-> name, value |-> value])

\* the items of a parameter map given by its keys alone; the maps of ParamSets never
\* hold max_tokens and num_predict together, so their order has no effect
Items(parameters) ==
  LET n == Cardinality(DOMAIN parameters)
      order == CHOOSE f \in [1..n -> DOMAIN parameters] :
                 \A i, j \in 1..n : i # j => f[i] # f[j] IN
  [i \in 1..n |-> [key |-> order[i], value |-> parameters[order[i]]]]

ParamsToDict(parameters) == to_dict(Items(parameters))

\* hasattr(parameters, 'think')
HasThink(parameters) == "think" \in DOMAIN parameters

\* ------------------------------------------------------------------------
\* Decoding a backend reply (OllamaConversationService.generate_response)
\* ------------------------------------------------------------------------
TO == "<think>"
TC == "</think>"

Contains(content, tok) == \E i \in 1..Len(content) : content[i] = tok

\* re.search(r'<think>(.*?)</think>'): leftmost opening tag followed by a closing tag
HasMatch(content) ==
  \E i, j \in 1..Len(content) : i < j /\ content[i] = TO /\ content[j] = TC
MatchStart(content) ==
  CHOOSE i \in 1..Len(content) :
    /\ content[i] = TO
    /\ \E j \in (i + 1)..Len(content) : content[j] = TC
    /\ \A k \in 1..(i - 1) : ~(content[k] = TO /\ \E j \in (k + 1)..Len(content) : content[j] = TC)
MatchEnd(content) ==
  CHOOSE j \in (MatchStart(content) + 1)..Len(content) :
    /\ content[j] = TC
    /\ \A k \in (MatchStart(content) + 1)..(j - 1) : content[k] # TC

\* re.sub(r'<think>.*?</think>', '', content)
RECURSIVE RemoveThink(_)
RemoveThink(content) ==
  IF ~HasMatch(content) THEN content
  ELSE SubSeq(content, 1, MatchStart(content) - 1)
       \o RemoveThink(SubSeq(content, MatchEnd(content) + 1, Len(content)))

\* str.strip()
RECURSIVE LStrip(_)
LStrip(s) == IF s # <<>> /\ Head(s) = " " THEN LStrip(Tail(s)) ELSE s
RECURSIVE RStrip(_)
RStrip(s) == IF s # <<>> /\ s[Len(s)] = " " THEN RStrip(SubSeq(s, 1, Len(s) - 1)) ELSE s
Strip(s) == RStrip(LStrip(s))

RawContent(response) ==
  IF response.message = None THEN <<>> ELSE GetOr(The(response.message).content, <<>>)

RawThinking(response) ==
  IF response.message = None THEN None ELSE The(response.message).thinking

\* variant of DecodeContent that leaves the reasoning span in place
DecodeContent_KeepSpan(response) == RawContent(response)

DecodeContent(response) ==
  LET content == RawContent(response) IN
  IF Contains(content, TO) /\ Contains(content, TC) /\ HasMatch(content)
  THEN Strip(RemoveThink(content)) ELSE content

\* variant of DecodeThinking that only reads the dedicated field
DecodeThinking_FieldOnly(response) == RawThinking(response)

DecodeThinking(response) ==
  LET content == RawContent(response)
      thinking == RawThinking(response) IN
  IF Contains(content, TO) /\ Contains(content, TC) /\ HasMatch(content) /\ ~Truthy(thinking)
  THEN Some(Strip(SubSeq(content, MatchStart(content) + 1, MatchEnd(content) - 1)))
  ELSE thinking

DecodeToolCalls(response) ==
  IF response.message = None \/ The(response.message).tool_calls = None THEN None
  ELSE LET raw == The(The(response.message).tool_calls) IN
       Some([i \in 1..Len(raw) |->
               [function |-> [name |-> raw[i].function.name,
                              arguments |-> raw[i].function.arguments],
                id |-> raw[i].id]])

GenerationResponse(content, raw_response, finish_reason, usage, tool_calls, tool_results, thinking) ==
  [content |-> content, raw_response |-> raw_response, finish_reason |-> finish_reason,
   usage |-> usage, tool_calls |-> tool_calls, tool_results |-> tool_results,
   thinking |-> thinking]

Decode(response) ==
  GenerationResponse(DecodeContent(response), Some(response), response.done,
                     Some(response.prompt_eval_count), DecodeToolCalls(response), None,
                     DecodeThinking(response))

\* ------------------------------------------------------------------------
\* Inputs: what the caller passes and what the backend may answer
\* ------------------------------------------------------------------------
ModelName == "llama3"
UserMessage == <<"q">>

SyncOps == {"generate_response", "generate_response_with_tool_execution", "chat"}
StreamOps == {"stream_response", "stream_response_with_tool_execution", "stream_chat"}
Ops == SyncOps \cup StreamOps

\* ModelParameters(...) as constructed by callers
ParamSets == { <<>>,
               [temperature |-> "0.7", max_tokens |-> 500],
               [think |-> TRUE, max_tokens |-> 500] }

\* the tools argument: the set of function names passed ({} stands for None / [])
ToolSets == { {}, {"add_two_numbers"} }

\* conversations a caller can hold when an operation starts
Histories == { <<>>,
               <<Message("system", <<"s">>, None, None),
                 Message("user", <<"p">>, None, None)>> }

RawToolCall(name, arguments, id) ==
  [function |-> [name |-> name, arguments |-> arguments], id |-> id]

\* tool calls a model may emit: a well-formed call, a call missing an argument
\* and without id, and a call of a function the caller never supplied
ToolCallPool ==
  { RawToolCall("add_two_numbers", [a |-> PyStr(<<"5">>), b |-> PyStr(<<"3">>)], Some("call_1")),
    RawToolCall("add_two_numbers", [a |-> PyStr(<<"5">>)], None),
    RawToolCall("get_time", <<>>, Some("call_3")) }

ToolCallFields ==
  {None} \cup { Some(tcs) : tcs \in DistinctSeqs(ToolCallPool, MaxToolCalls) }

RawMessage(content, thinking, tool_calls) ==
  [content |-> content, thinking |-> thinking, tool_calls |-> tool_calls]

Reply(content, thinking, tool_calls, done, prompt_eval_count) ==
  [message |-> Some(RawMessage(content, thinking, tool_calls)),
   done |-> done, prompt_eval_count |-> prompt_eval_count]

Replies ==
  UNION { { Reply(Some(<<"a">>), None, tcs, Some(TRUE), Some(10)),
            Reply(Some(<<TO, "r", TC, " ", "b">>), None, tcs, Some(FALSE), Some(20)),
            Reply(Some(<<"b">>), Some(<<"r">>), tcs, None, None) } : tcs \in ToolCallFields }

\* chunks of a streamed reply: text deltas, a delta inside a reasoning span, and
\* deltas carrying one tool call each
Chunks ==
  { Reply(Some(<<"a">>), None, None, Some(FALSE), None),
    Reply(Some(<<TO, "r", TC, "b">>), None, None, Some(TRUE), Some(10)),
    Reply(Some(<<>>), Some(<<"r">>), Some(<<CHOOSE tc \in ToolCallPool : tc.id = Some("call_1")>>),
          Some(FALSE), None),
    Reply(Some(<<"c">>), None, Some(<<CHOOSE tc \in ToolCallPool : tc.id = Some("call_3")>>),
          Some(FALSE), None) }

Features == {"tools", "think"}

\* a backend: the features its model rejects, and whether its transport may fail
Backends == [rejects : SUBSET Features, flaky : BOOLEAN]

\* an exception raised by ollama.chat: id identifies the exception object (the number
\* of the request that raised it), names are the features its text mentions
BackendError(id, names) == [kind |-> "ResponseError", id |-> id, names |-> names]

\* next() on a stream that has no chunk
StopIteration(id) == [kind |-> "StopIteration", id |-> id, names |-> {}]

\* ------------------------------------------------------------------------
\* State
\* ------------------------------------------------------------------------
VARIABLES
  op,               \* the operation the caller invoked
  parameters,       \* its ModelParameters
  tools,            \* its tools argument
  auto_execute,     \* its auto_execute argument
  backend,          \* the backend the process talks to
  conversation,     \* the caller's Conversation.messages
  pc,               \* position in the operation
  phase,            \* 1: first request of the turn, 2: resolve request
  stage,            \* position in the fallback ladder of the current request
  chat_kwargs,      \* keyword arguments of the next ollama.chat call
  requests,         \* every ollama.chat call issued so far, in order
  initial_response, \* Optional: the decoded first reply (resolve path)
  tool_results,     \* results of the tool calls executed so far
  executed,         \* the tool calls handed to the registry so far, in order
  returned,         \* Optional: the value the operation returned
  raised,           \* Optional: the exception the operation raised
  yielded,          \* the responses a streaming operation has yielded so far
  chunks_read,      \* chunks delivered by the current backend stream
  initial_content,  \* streaming: first-pass content accumulated by the service
  collected_tool_calls, \* streaming: first-pass tool calls accumulated by the service
  replies,          \* history: the replies ollama.chat returned (non-streaming), in order
  failures,         \* history: the exceptions ollama.chat raised, in order
  added,            \* history: the calls made on a Conversation used on its own
  client,           \* stream_chat: the locals accumulated by the client's loop
  client_yielded    \* stream_chat: the elements the client's generator has yielded

vars == <<op, parameters, tools, auto_execute, backend, conversation, pc, phase, stage,
          chat_kwargs, requests, initial_response, tool_results, executed, returned, raised,
          yielded, chunks_read, initial_content, collected_tool_calls, replies, failures,
          added, client, client_yielded>>

streaming == <<yielded, chunks_read, initial_content, collected_tool_calls, client,
              client_yielded>>

inputs == <<op, parameters, tools, auto_execute, backend>>

\* chat_kwargs as built by generate_response / stream_response; a key that is
\* not passed is None (tools: the empty set)
BuildKwargs(messages, params, tls, stream) ==
  [model |-> ModelName,
   messages |-> get_message_history(messages),
   options |-> ParamsToDict(params),
   tools |-> tls,
   think |-> IF HasThink(params) THEN Some(params["think"]) ELSE None,
   stream |-> stream]

NoKwargs == BuildKwargs(<<>>, <<>>, {}, FALSE)

\* the locals of stream_chat before its loop
ClientStart ==
  [initial_content |-> <<>>, final_content |-> <<>>, all_tool_calls |-> <<>>,
   all_tool_results |-> <<>>, full_response |-> <<>>]

\* client.stream_chat takes its auto-execute branch
ClientAuto == tools # {} /\ auto_execute

\* the streaming operations that run the resolve protocol
StreamWithToolExecution ==
  \/ op = "stream_response_with_tool_execution"
  \/ op = "stream_chat" /\ ClientAuto

\* client.chat and generate_response_with_tool_execution run the resolve protocol
WithToolExecution ==
  \/ op = "generate_response_with_tool_execution"
  \/ op = "chat" /\ tools # {} /\ auto_execute

Init ==
  /\ op \in Ops
  /\ parameters \in ParamSets
  /\ tools \in ToolSets
  /\ auto_execute \in BOOLEAN
  /\ (op \in {"generate_response", "stream_response"} => auto_execute)
  /\ backend \in Backends
  /\ conversation \in Histories
  /\ pc = "start"
  /\ phase = 1
  /\ stage = "full"
  /\ chat_kwargs = NoKwargs
  /\ requests = <<>>
  /\ initial_response = None
  /\ tool_results = <<>>
  /\ executed = <<>>
  /\ returned = None
  /\ raised = None
  /\ yielded = <<>>
  /\ chunks_read = 0
  /\ initial_content = <<>>
  /\ collected_tool_calls = <<>>
  /\ replies = <<>>
  /\ failures = <<>>
  /\ added = <<>>
  /\ client = ClientStart
  /\ client_yielded = <<>>

\* ------------------------------------------------------------------------
\* The backend (external): which outcomes a request can have
\* ------------------------------------------------------------------------
Present(kw) == (IF kw.tools # {} THEN {"tools"} ELSE {})
               \cup (IF kw.think # None THEN {"think"} ELSE {})

Rejected(kw) == Present(kw) \cap backend.rejects

\* the feature sets a failure text may name: a rejection names rejected features
\* of the request, a transport failure names none
FailureNames(kw) ==
  { N \in SUBSET Features :
      \/ N # {} /\ N \subseteq Rejected(kw)
      \/ N = {} /\ backend.flaky }

CanReply(kw) == Rejected(kw) = {}

\* ------------------------------------------------------------------------
\* Entry: client.chat appends the user message; the first request is built
\* ------------------------------------------------------------------------
Start ==
  /\ pc = "start"
  /\ LET messages == IF op \in {"chat", "stream_chat"}
                     THEN add_user_message(conversation, UserMessage)
                     ELSE conversation IN
     /\ conversation' = messages
     /\ chat_kwargs' = BuildKwargs(messages, parameters, tools, op \in StreamOps)
  /\ pc' = IF op \in StreamOps THEN "s_try" ELSE "request"
  /\ UNCHANGED <<inputs, added, phase, stage, requests, initial_response, tool_results,
                 executed, returned, raised, streaming, replies, failures>>

\* the caller's code after the service returned (client.chat), or nothing
AfterReturn(messages, response) ==
  IF op # "chat" THEN messages
  ELSE IF tools # {} /\ auto_execute
  THEN LET with_assistant ==
             IF Truthy(response.tool_calls)
             THEN AddAssistantWithToolCalls(messages, response.content, response.tool_calls)
             ELSE add_assistant_message(messages, response.content) IN
       IF Truthy(response.tool_results)
       THEN add_tool_results(with_assistant, The(response.tool_results))
       ELSE with_assistant
  ELSE IF Truthy(response.tool_calls)
       THEN AddAssistantWithToolCalls(messages, response.content, response.tool_calls)
       ELSE add_assistant_message(messages, response.content)

Return(response) ==
  /\ returned' = Some(response)
  /\ conversation' = AfterReturn(conversation, response)
  /\ pc' = "done"
  /\ UNCHANGED raised

Raise(e) ==
  /\ raised' = Some(e)
  /\ pc' = "done"
  /\ UNCHANGED <<returned, conversation>>

\* variants of Compose with one field taken from the wrong reply
Compose_InitialContent(initial, final, results) ==
  GenerationResponse(initial.content, final.raw_response, final.finish_reason, final.usage,
                     initial.tool_calls, Some(results), None)

Compose_InitialFinish(initial, final, results) ==
  GenerationResponse(final.content, final.raw_response, initial.finish_reason, final.usage,
                     initial.tool_calls, Some(results), None)

\* the response generate_response_with_tool_execution composes on the resolve path
Compose(initial, final, results) ==
  GenerationResponse(final.content, final.raw_response, final.finish_reason, final.usage,
                     initial.tool_calls, Some(results), None)

\* variants of ShouldResolve: one that inspects every reply of the turn, one that
\* does not look at auto_execute
ShouldResolve_AnyReply(ph, response) ==
  /\ WithToolExecution
  /\ ~(~Truthy(response.tool_calls) \/ ~auto_execute \/ tools = {})

ShouldResolve_IgnoreAuto(ph, response) ==
  /\ ph = 1
  /\ WithToolExecution
  /\ ~(~Truthy(response.tool_calls) \/ tools = {})

\* generate_response_with_tool_execution goes on to the tool round: only the reply
\* of its first generate_response call is inspected
ShouldResolve(ph, response) ==
  /\ ph = 1
  /\ WithToolExecution
  /\ ~(~Truthy(response.tool_calls) \/ ~auto_execute \/ tools = {})

\* ollama.chat returned `reply`: decode, then branch or compose
ChatReply ==
  /\ pc = "request"
  /\ CanReply(chat_kwargs)
  /\ \E reply \in Replies :
       LET response == Decode(reply) IN
       /\ requests' = Append(requests, chat_kwargs)
       /\ replies' = Append(replies, reply)
       /\ IF ShouldResolve(phase, response)
          THEN /\ initial_response' = Some(response)
               /\ tool_results' = <<>>
               /\ pc' = "execute"
               /\ UNCHANGED <<returned, raised, conversation>>
          ELSE IF phase = 2
          THEN /\ Return(Compose(The(initial_response), response, tool_results))
               /\ UNCHANGED <<initial_response, tool_results>>
          ELSE /\ Return(response)
               /\ UNCHANGED <<initial_response, tool_results>>
  /\ UNCHANGED <<inputs, added, phase, stage, chat_kwargs, executed, streaming, failures>>

\* ------------------------------------------------------------------------
\* Capability fallback of generate_response (the except blocks)
\* ------------------------------------------------------------------------
\* variant of Without that deletes nothing
Without_Nothing(kw, feature) == kw

\* del chat_kwargs_fallback[feature]
Without(kw, feature) ==
  IF feature = "tools" THEN [kw EXCEPT !.tools = {}] ELSE [kw EXCEPT !.think = None]

Retry(kw, stg) == [retry |-> TRUE, kwargs |-> kw, stage |-> stg]
Propagate(kw) == [retry |-> FALSE, kwargs |-> kw, stage |-> "raised"]

\* variant of Fallback that also retries, without thinking, after a failure whose
\* text names no feature
Fallback_RetryUnrecognized(stg, kw, names) ==
  LET tools_unsupported == kw.tools # {} /\ "tools" \in names
      thinking_unsupported == kw.think # None /\ ("think" \in names \/ names = {}) IN
  CASE stg = "full" /\ tools_unsupported /\ thinking_unsupported ->
         Retry(Without(Without(kw, "tools"), "think"), "no_tools_no_think")
    [] stg = "full" /\ tools_unsupported /\ ~thinking_unsupported ->
         Retry(Without(kw, "tools"), "no_tools")
    [] stg = "full" /\ ~tools_unsupported /\ thinking_unsupported ->
         Retry(Without(kw, "think"), "no_think")
    [] stg = "no_tools" /\ kw.think # None ->
         Retry(Without(kw, "think"), "no_tools_no_think")
    [] OTHER -> Propagate(kw)

\* variant of Fallback that removes both features at once whenever tools are named
Fallback_BothAtOnce(stg, kw, names) ==
  LET tools_unsupported == kw.tools # {} /\ "tools" \in names
      thinking_unsupported == kw.think # None /\ "think" \in names IN
  CASE stg = "full" /\ tools_unsupported ->
         Retry(Without(Without(kw, "tools"), "think"), "no_tools_no_think")
    [] stg = "full" /\ ~tools_unsupported /\ thinking_unsupported ->
         Retry(Without(kw, "think"), "no_think")
    [] OTHER -> Propagate(kw)

\* what the handler does with a failure caught at ladder position stg whose text
\* names the features in names
Fallback(stg, kw, names) ==
  LET tools_unsupported == kw.tools # {} /\ "tools" \in names
      thinking_unsupported == kw.think # None /\ "think" \in names IN
  CASE stg = "full" /\ tools_unsupported /\ thinking_unsupported ->
         Retry(Without(Without(kw, "tools"), "think"), "no_tools_no_think")
    [] stg = "full" /\ tools_unsupported /\ ~thinking_unsupported ->
         Retry(Without(kw, "tools"), "no_tools")
    [] stg = "full" /\ ~tools_unsupported /\ thinking_unsupported ->
         Retry(Without(kw, "think"), "no_think")
    [] stg = "no_tools" /\ kw.think # None ->
         Retry(Without(kw, "think"), "no_tools_no_think")
    [] OTHER -> Propagate(kw)

\* ollama.chat raised
ChatError ==
  /\ pc = "request"
  /\ \E names \in FailureNames(chat_kwargs) :
       LET e == BackendError(Len(requests) + 1, names)
           step == Fallback(stage, chat_kwargs, names) IN
       /\ requests' = Append(requests, chat_kwargs)
       /\ failures' = Append(failures, e)
       /\ IF step.retry
          THEN /\ chat_kwargs' = step.kwargs
               /\ stage' = step.stage
               /\ UNCHANGED <<pc, returned, raised, conversation>>
          ELSE /\ Raise(e)
               /\ UNCHANGED <<chat_kwargs, stage>>
  /\ UNCHANGED <<inputs, added, phase, initial_response, tool_results, executed, streaming,
                 replies>>

\* ------------------------------------------------------------------------
\* Resolve: execute the tool calls of the first reply, then build the second request
\* ------------------------------------------------------------------------
\* variant of CallerMessages in which the working copy shares the caller's list
CallerMessages_Shared(messages, temp) == temp

\* messages=conversation.messages.copy(): the appends made on the working copy go to
\* a list of its own, the caller's list is left as it was
CallerMessages(messages, temp) == messages

\* variant of TempConversation that puts the tool messages before the assistant
\* message
TempConversation_ResultsFirst(messages, initial, results) ==
  AddAssistantWithToolCalls(add_tool_results(messages, results),
                            initial.content, initial.tool_calls)

\* the working copy the resolve request is built from
TempConversation(messages, initial, results) ==
  add_tool_results(
    AddAssistantWithToolCalls(messages, initial.content, initial.tool_calls),
    results)

\* variant of BatchDone that leaves the loop at the first failed call
BatchDone_StopOnError(results, calls) ==
  Len(results) = Len(calls) \/ Truthy(results[Len(results)].error)

\* variant of BatchDone that leaves the loop after the first call
BatchDone_AfterFirst(results, calls) == Len(results) >= 1

\* for tool_call in tool_calls: the loop ends when every call has its result
BatchDone(results, calls) == Len(results) = Len(calls)

ExecuteToolCall ==
  /\ pc = "execute"
  /\ LET calls == The(The(initial_response).tool_calls)
         tool_call == calls[Len(tool_results) + 1]
         result == execute_tool_call(tools, tool_call)
         results == Append(tool_results, result) IN
     /\ executed' = Append(executed, tool_call)
     /\ tool_results' = results
     /\ IF BatchDone(results, calls)
        THEN LET temp_conversation ==
                   TempConversation(conversation, The(initial_response), results) IN
             /\ chat_kwargs' = BuildKwargs(temp_conversation, parameters, {}, FALSE)
             /\ conversation' = CallerMessages(conversation, temp_conversation)
             /\ phase' = 2
             /\ stage' = "full"
             /\ pc' = "request"
        ELSE UNCHANGED <<chat_kwargs, conversation, phase, stage, pc>>
  /\ UNCHANGED <<inputs, added, requests, initial_response, returned, raised,
                 streaming, replies, failures>>

\* ------------------------------------------------------------------------
\* stream_response: _create_stream_with_fallback, then one yield per chunk
\* ------------------------------------------------------------------------
\* a further attempt inside a try block (call and first next), or a stream returned
\* without being tested (`return ollama.chat(...)`)
TryAgain(kw, stg) == [next |-> "try", kwargs |-> kw, stage |-> stg]
ReturnLazy(kw, stg) == [next |-> "lazy", kwargs |-> kw, stage |-> stg]
Reraise(kw) == [next |-> "raise", kwargs |-> kw, stage |-> "raised"]

\* what _create_stream_with_fallback does with an exception caught at position stg:
\*   full        the try block of the outermost call
\*   inner       the try block of the recursive call (tools already removed)
\*   lazy_inner  the untested call made by the recursive call's handler
\*   lazy_top    the untested call made by the outermost handler
StreamFallback(stg, kw, names) ==
  LET tools_unsupported == kw.tools # {} /\ "tools" \in names
      thinking_unsupported == kw.think # None /\ "think" \in names IN
  CASE stg = "full" /\ tools_unsupported /\ thinking_unsupported ->
         ReturnLazy(Without(Without(kw, "tools"), "think"), "lazy_top")
    [] stg = "full" /\ tools_unsupported /\ ~thinking_unsupported ->
         TryAgain(Without(kw, "tools"), "inner")
    [] stg = "full" /\ ~tools_unsupported /\ thinking_unsupported ->
         ReturnLazy(Without(kw, "think"), "lazy_top")
    [] stg = "inner" /\ thinking_unsupported ->
         ReturnLazy(Without(kw, "think"), "lazy_inner")
    [] stg = "inner" /\ ~thinking_unsupported /\ kw.think # None ->
         ReturnLazy(Without(kw, "think"), "lazy_top")
    [] stg = "lazy_inner" ->
         ReturnLazy(kw, "lazy_top")
    [] OTHER -> Reraise(kw)

\* an exception leaving the generator: StopIteration surfaces as RuntimeError
Surfaced(e) == IF e.kind = "StopIteration" THEN [e EXCEPT !.kind = "RuntimeError"] ELSE e

\* variant of DecodeChunk that carries the content of no chunk
DecodeChunk_NoContent(chunk) ==
  GenerationResponse(<<>>, Some(chunk), chunk.done,
                     Some(chunk.prompt_eval_count), DecodeToolCalls(chunk), None,
                     DecodeThinking(chunk))

\* the GenerationResponse stream_response yields for a chunk
DecodeChunk(chunk) ==
  GenerationResponse(DecodeContent(chunk), Some(chunk), chunk.done,
                     Some(chunk.prompt_eval_count), DecodeToolCalls(chunk), None,
                     DecodeThinking(chunk))

\* the body of stream_chat's loop for one element of the service's generator
ClientOnChunkAuto(cl, chunk) ==
  [cl EXCEPT
     !.all_tool_results = IF Truthy(chunk.tool_results)
                          THEN @ \o The(chunk.tool_results) ELSE @,
     !.initial_content = IF chunk.content # <<>>
                            /\ (Truthy(chunk.tool_calls) \/ cl.all_tool_calls # <<>>)
                         THEN @ \o chunk.content ELSE @,
     !.final_content = IF chunk.content # <<>>
                          /\ ~(Truthy(chunk.tool_calls) \/ cl.all_tool_calls # <<>>)
                       THEN @ \o chunk.content ELSE @,
     !.all_tool_calls = IF Truthy(chunk.tool_calls)
                        THEN @ \o The(chunk.tool_calls) ELSE @]

ClientOnChunkManual(cl, chunk) ==
  [cl EXCEPT
     !.full_response = IF chunk.content # <<>> THEN @ \o chunk.content ELSE @,
     !.all_tool_calls = IF Truthy(chunk.tool_calls)
                        THEN @ \o The(chunk.tool_calls) ELSE @]

ClientOnChunk(cl, chunk) ==
  IF ClientAuto THEN ClientOnChunkAuto(cl, chunk) ELSE ClientOnChunkManual(cl, chunk)

\* the service's generator yields `response` into stream_chat's loop; on the
\* auto-execute branch the loop body yields it on to the caller
ClientReceives(response) ==
  IF op = "stream_chat"
  THEN /\ client' = ClientOnChunk(client, response)
       /\ client_yielded' = IF ClientAuto THEN Append(client_yielded, response)
                             ELSE client_yielded
  ELSE UNCHANGED <<client, client_yielded>>

\* stream_chat after its loop, auto-execute branch: what is recorded in the history
ClientEpilogueAuto(messages, cl) ==
  LET with_initial ==
        IF cl.initial_content # <<>> \/ cl.all_tool_calls # <<>>
        THEN IF cl.all_tool_calls # <<>>
             THEN AddAssistantWithToolCalls(messages, cl.initial_content,
                                            Some(cl.all_tool_calls))
             ELSE add_assistant_message(messages, cl.initial_content)
        ELSE messages
      with_results ==
        IF cl.all_tool_results # <<>>
        THEN add_tool_results(with_initial, cl.all_tool_results) ELSE with_initial IN
  IF cl.final_content # <<>>
  THEN add_assistant_message(with_results, cl.final_content) ELSE with_results

\* variant of ClientEpilogueManual that records an assistant message only when text
\* was received
ClientEpilogueManual_SkipEmpty(messages, cl) ==
  IF cl.full_response # <<>> THEN add_assistant_message(messages, cl.full_response)
  ELSE messages

\* variant of ClientEpilogueManual that records nothing
ClientEpilogueManual_Nothing(messages, cl) == messages

\* stream_chat after its only yield, manual branch
ClientEpilogueManual(messages, cl) ==
  IF cl.all_tool_calls # <<>>
  THEN AddAssistantWithToolCalls(messages, cl.full_response, Some(cl.all_tool_calls))
  ELSE add_assistant_message(messages, cl.full_response)

ClientEpilogue(messages, cl) ==
  IF ClientAuto THEN ClientEpilogueAuto(messages, cl) ELSE ClientEpilogueManual(messages, cl)

\* variant of GeneratorClose that runs the rest of stream_chat
GeneratorClose_RunsEpilogue(messages, cl) == ClientEpilogue(messages, cl)

\* the caller drops the generator while it is suspended at a yield: stream_chat has
\* no try/finally, so none of its remaining statements runs
GeneratorClose(messages, cl) == messages

\* `yield chunk` after a loop that never ran
UnboundLocalError == [kind |-> "UnboundLocalError", id |-> 0, names |-> {}]

\* a chunk reaches the consumer; stream_response_with_tool_execution accumulates
\* the first pass
YieldChunk(chunk) ==
  LET response == DecodeChunk(chunk) IN
  /\ yielded' = Append(yielded, response)
  /\ chunks_read' = chunks_read + 1
  /\ ClientReceives(response)
  /\ IF StreamWithToolExecution /\ phase = 1
     THEN /\ initial_content' = IF response.content # <<>>
                                THEN initial_content \o response.content ELSE initial_content
          /\ collected_tool_calls' = IF Truthy(response.tool_calls)
                                     THEN collected_tool_calls \o The(response.tool_calls)
                                     ELSE collected_tool_calls
     ELSE UNCHANGED <<initial_content, collected_tool_calls>>

HandleStreamFailure(e) ==
  LET step == StreamFallback(stage, chat_kwargs, e.names) IN
  IF step.next = "raise"
  THEN /\ Raise(Surfaced(e))
       /\ UNCHANGED <<chat_kwargs, stage>>
  ELSE /\ chat_kwargs' = step.kwargs
       /\ stage' = step.stage
       /\ pc' = IF step.next = "try" THEN "s_try" ELSE "s_lazy"
       /\ UNCHANGED <<returned, raised, conversation>>

\* try: stream = ollama.chat(**kwargs); first_chunk = next(iter(stream))
StreamTry ==
  /\ pc = "s_try"
  /\ requests' = Append(requests, chat_kwargs)
  /\ \/ \E names \in FailureNames(chat_kwargs) :
          /\ HandleStreamFailure(BackendError(Len(requests) + 1, names))
          /\ failures' = Append(failures, BackendError(Len(requests) + 1, names))
          /\ UNCHANGED streaming
     \/ /\ CanReply(chat_kwargs)
        /\ HandleStreamFailure(StopIteration(Len(requests) + 1))
        /\ UNCHANGED <<streaming, failures>>
     \/ /\ CanReply(chat_kwargs)
        /\ \E chunk \in Chunks : YieldChunk(chunk)
        /\ pc' = "s_iter"
        /\ UNCHANGED <<chat_kwargs, stage, returned, raised, conversation, failures>>
  /\ UNCHANGED <<inputs, added, phase, initial_response, tool_results, executed, replies>>

\* return ollama.chat(**fallback_kwargs): the call raises at once, or hands back a
\* stream whose first chunk is only requested by the consuming loop
StreamLazyCall ==
  /\ pc = "s_lazy"
  /\ requests' = Append(requests, chat_kwargs)
  /\ \/ \E names \in FailureNames(chat_kwargs) :
          /\ HandleStreamFailure(BackendError(Len(requests) + 1, names))
          /\ failures' = Append(failures, BackendError(Len(requests) + 1, names))
     \/ /\ pc' = "s_iter"
        /\ UNCHANGED <<chat_kwargs, stage, returned, raised, conversation, failures>>
  /\ UNCHANGED <<inputs, added, phase, initial_response, tool_results, executed, streaming,
                 replies>>

\* for chunk in stream: the next chunk arrives and is yielded
StreamChunk ==
  /\ pc = "s_iter"
  /\ CanReply(chat_kwargs)
  /\ chunks_read < MaxChunks
  /\ \E chunk \in Chunks : YieldChunk(chunk)
  /\ UNCHANGED <<inputs, added, conversation, pc, phase, stage, chat_kwargs, requests,
                 initial_response, tool_results, executed, returned, raised, replies,
                 failures>>

\* the stream raises while it is consumed (a rejection reported on the first next of
\* an untested stream, or a transport failure): the exception reaches the consumer
StreamError ==
  /\ pc = "s_iter"
  /\ \E names \in FailureNames(chat_kwargs) :
       /\ (Rejected(chat_kwargs) # {} => chunks_read = 0)
       /\ Raise(BackendError(Len(requests), names))
       /\ failures' = Append(failures, BackendError(Len(requests), names))
  /\ UNCHANGED <<inputs, added, phase, stage, chat_kwargs, requests, initial_response,
                 tool_results, executed, streaming, replies>>

\* stream_response_with_tool_execution goes on to the tool round: only after its
\* first stream
StreamShouldResolve(ph, calls) ==
  /\ ph = 1
  /\ StreamWithToolExecution
  /\ ~(calls = <<>> \/ ~auto_execute \/ tools = {})

\* the stream is exhausted: stream_response ends; with tool execution the first
\* pass may be followed by the tool round
StreamEnd ==
  /\ pc = "s_iter"
  /\ CanReply(chat_kwargs)
  /\ IF StreamShouldResolve(phase, collected_tool_calls)
     THEN /\ pc' = "s_execute"
          /\ UNCHANGED <<conversation, raised, client_yielded>>
     ELSE IF op # "stream_chat"
     THEN /\ pc' = "done"
          /\ UNCHANGED <<conversation, raised, client_yielded>>
     ELSE IF ClientAuto
     THEN /\ conversation' = ClientEpilogue(conversation, client)
          /\ pc' = "done"
          /\ UNCHANGED <<raised, client_yielded>>
     ELSE IF yielded = <<>>
     THEN /\ raised' = Some(UnboundLocalError)
          /\ pc' = "done"
          /\ UNCHANGED <<conversation, client_yielded>>
     ELSE /\ client_yielded' = Append(client_yielded, yielded[Len(yielded)])
          /\ pc' = "c_yield"
          /\ UNCHANGED <<conversation, raised>>
  /\ UNCHANGED <<inputs, added, phase, stage, chat_kwargs, requests, initial_response,
                 tool_results, executed, returned, yielded, chunks_read, initial_content,
                 collected_tool_calls, client, replies, failures>>

\* stream_chat, manual branch: the caller asks for the element after the only one;
\* the assistant message is recorded and the generator ends
ClientResume ==
  /\ pc = "c_yield"
  /\ conversation' = ClientEpilogue(conversation, client)
  /\ pc' = "done"
  /\ UNCHANGED <<inputs, added, phase, stage, chat_kwargs, requests, initial_response,
                 tool_results, executed, returned, raised, streaming, replies, failures>>

\* stream_chat's generator is suspended at a yield
Suspended ==
  /\ op = "stream_chat"
  /\ client_yielded # <<>>
  /\ \/ pc = "s_iter" /\ chunks_read > 0
     \/ pc = "s_execute" /\ tool_results # <<>>
     \/ pc = "s_try" /\ phase = 2 /\ stage = "full"
     \/ pc = "c_yield"

\* the caller stops iterating and drops the generator
Abandon ==
  /\ Suspended
  /\ conversation' = GeneratorClose(conversation, client)
  /\ pc' = "abandoned"
  /\ UNCHANGED <<inputs, added, phase, stage, chat_kwargs, requests, initial_response,
                 tool_results, executed, returned, raised, streaming, replies, failures>>

\* one tool call is executed and its result yielded; after the last one the second
\* stream is requested over the working copy
\* variant of RunOnPull in which the whole batch runs on the first pull
RunOnPull_WholeBatch(done, calls, tool_call) == calls

\* the tool calls that have run once the generator is suspended at the yield of a
\* result: the loop body runs one call, then yields
RunOnPull(done, calls, tool_call) == Append(done, tool_call)

StreamExecuteToolCall ==
  /\ pc = "s_execute"
  /\ LET tool_call == collected_tool_calls[Len(tool_results) + 1]
         result == execute_tool_call(tools, tool_call)
         results == Append(tool_results, result) IN
     /\ executed' = RunOnPull(executed, collected_tool_calls, tool_call)
     /\ tool_results' = results
     /\ yielded' = Append(yielded,
                          GenerationResponse(<<>>, None, None, None, None,
                                             Some(<<result>>), None))
     /\ ClientReceives(GenerationResponse(<<>>, None, None, None, None,
                                          Some(<<result>>), None))
     /\ IF BatchDone(results, collected_tool_calls)
        THEN LET temp_conversation ==
                   add_tool_results(
                     AddAssistantWithToolCalls(conversation, initial_content,
                                               Some(collected_tool_calls)),
                     results) IN
             /\ chat_kwargs' = BuildKwargs(temp_conversation, parameters, {}, TRUE)
             /\ conversation' = CallerMessages(conversation, temp_conversation)
             /\ phase' = 2
             /\ stage' = "full"
             /\ chunks_read' = 0
             /\ pc' = "s_try"
        ELSE UNCHANGED <<chat_kwargs, conversation, phase, stage, chunks_read, pc>>
  /\ UNCHANGED <<inputs, added, requests, initial_response, returned, raised,
                 initial_content, collected_tool_calls, replies, failures>>

Next ==
  \/ Start
  \/ ChatReply
  \/ ChatError
  \/ ExecuteToolCall
  \/ StreamTry
  \/ StreamLazyCall
  \/ StreamChunk
  \/ StreamError
  \/ StreamEnd
  \/ StreamExecuteToolCall
  \/ ClientResume
  \/ Abandon

Spec == Init /\ [][Next]_vars

\* ------------------------------------------------------------------------
\* generate_response on its own, with the backend answering every request it is sent
\* ------------------------------------------------------------------------
InitGenerate == Init /\ op = "generate_response"

NextGenerate == Start \/ ChatReply \/ ChatError

\* the backend answers each request (with a reply or a failure), the method runs on
SpecGenerate == InitGenerate /\ [][NextGenerate]_vars /\ WF_vars(NextGenerate)

\* ------------------------------------------------------------------------
\* ToolRegistry.execute_tool_call on its own: one call against a registry
\* ------------------------------------------------------------------------
\* argument values a model may send: digit strings, a negative number, text, the
\* empty string, a digit that is not decimal, and values that are not strings
ArgValues ==
  { PyStr(<<"5">>), PyStr(<<"3">>), PyStr(<<"1", "2">>), PyStr(<<"-", "2">>),
    PyStr(<<"a", "b", "c">>), PyStr(<<>>), PyStr(<<Superscript2>>),
    PyInt(7), PyFloat(2) }

RegistryCalls ==
  { RawToolCall("add_two_numbers", [a |-> x, b |-> y], Some("call_1")) :
      x \in ArgValues, y \in { v \in ArgValues : ~CastRaises(v) } }
  \cup { RawToolCall("identity", [x |-> v], None) : v \in ArgValues }
  \cup { RawToolCall("get_time", <<>>, Some("call_3")) }

Registries == SUBSET {"add_two_numbers", "identity"}

InitRegistry ==
  /\ op = "execute_tool_call"
  /\ parameters = <<>>
  /\ tools \in Registries
  /\ auto_execute = TRUE
  /\ backend = [rejects |-> {}, flaky |-> FALSE]
  /\ conversation = <<>>
  /\ pc = "start"
  /\ phase = 1
  /\ stage = "full"
  /\ chat_kwargs = NoKwargs
  /\ requests = <<>>
  /\ initial_response = None
  /\ tool_results = <<>>
  /\ executed = <<>>
  /\ returned = None
  /\ raised = None
  /\ yielded = <<>>
  /\ chunks_read = 0
  /\ initial_content = <<>>
  /\ collected_tool_calls = <<>>
  /\ replies = <<>>
  /\ failures = <<>>
  /\ added = <<>>
  /\ client = ClientStart
  /\ client_yielded = <<>>

\* result = tool_registry.execute_tool_call(tool_call)
RegistryExecute ==
  /\ op = "execute_tool_call"
  /\ pc = "start"
  /\ \E tool_call \in RegistryCalls :
       /\ executed' = <<tool_call>>
       /\ tool_results' = <<execute_tool_call(tools, tool_call)>>
  /\ pc' = "done"
  /\ UNCHANGED <<inputs, added, conversation, phase, stage, chat_kwargs, requests,
                 initial_response, returned, raised, streaming, replies, failures>>

NextRegistry == RegistryExecute

SpecRegistry == InitRegistry /\ [][NextRegistry]_vars

\* ------------------------------------------------------------------------
\* ToolRegistry.execute_tool_call with MCP executors registered
\* ------------------------------------------------------------------------
\* what executor.execute_tool_call(tool_call) does: it completes, or it raises
ExecutorOutcomes == { Returned(PyStr(<<"ok">>)), Raised(<<"connection lost">>) }

\* the branch taken for a name in self.mcp_executors: after the executor completes,
\* the ToolResult expression reads result_container, a name bound nowhere, and the
\* NameError is caught by the same except clause as a failure of the executor
execute_mcp(tool_call, outcome) ==
  LET function_name == tool_call.function.name
      e == IF outcome.ok THEN <<"name 'result_container' is not defined">>
           ELSE outcome.msg IN
  ToolResult(tool_call.id, function_name, None, Some(<<"MCP execution failed: ">> \o e))

\* registries: functions registered with register, names given an MCP executor
McpRegistries ==
  [functions : SUBSET {"add_two_numbers", "identity"},
   mcp_executors : SUBSET {"add_two_numbers", "get_time"}]

InitMcp ==
  /\ op = "execute_tool_call_mcp"
  /\ parameters = <<>>
  /\ tools \in McpRegistries
  /\ auto_execute = TRUE
  /\ backend = [rejects |-> {}, flaky |-> FALSE]
  /\ conversation = <<>>
  /\ pc = "start"
  /\ phase = 1
  /\ stage = "full"
  /\ chat_kwargs = NoKwargs
  /\ requests = <<>>
  /\ initial_response = None
  /\ tool_results = <<>>
  /\ executed = <<>>
  /\ returned = None
  /\ raised = None
  /\ yielded = <<>>
  /\ chunks_read = 0
  /\ initial_content = <<>>
  /\ collected_tool_calls = <<>>
  /\ replies = <<>>
  /\ failures = <<>>
  /\ added = <<>>
  /\ client = ClientStart
  /\ client_yielded = <<>>

\* result = tool_registry.execute_tool_call(tool_call): the MCP executor of the
\* name when there is one, the registered Python function otherwise
McpExecute ==
  /\ op = "execute_tool_call_mcp"
  /\ pc = "start"
  /\ \E tool_call \in RegistryCalls, outcome \in ExecutorOutcomes :
       /\ executed' = <<tool_call>>
       /\ IF tool_call.function.name \in tools.mcp_executors
          THEN /\ replies' = <<outcome>>
               /\ tool_results' = <<execute_mcp(tool_call, outcome)>>
          ELSE /\ replies' = <<>>
               /\ tool_results' = <<execute_tool_call(tools.functions, tool_call)>>
  /\ pc' = "done"
  /\ UNCHANGED <<inputs, added, conversation, phase, stage, chat_kwargs, requests,
                 initial_response, returned, raised, streaming, failures>>

NextMcp == McpExecute

SpecMcp == InitMcp /\ [][NextMcp]_vars

\* ------------------------------------------------------------------------
\* A batch of tool calls executed and logged: execute_tool_call, add_tool_results
\* ------------------------------------------------------------------------
\* a call that succeeds, one that raises with a message, one that raises without a
\* message, and one of a function that is not registered
BatchCalls ==
  { RawToolCall("add_two_numbers", [a |-> PyStr(<<"5">>), b |-> PyStr(<<"3">>)], Some("call_1")),
    RawToolCall("add_two_numbers", [a |-> PyStr(<<"5">>)], Some("call_2")),
    RawToolCall("raise_bare", <<>>, Some("call_3")),
    RawToolCall("get_time", <<>>, Some("call_4")) }

BatchRegistries == SUBSET {"add_two_numbers", "raise_bare"}

InitBatch ==
  /\ op = "add_tool_results"
  /\ parameters = <<>>
  /\ tools \in BatchRegistries
  /\ auto_execute = TRUE
  /\ backend = [rejects |-> {}, flaky |-> FALSE]
  /\ conversation \in Histories
  /\ pc = "start"
  /\ phase = 1
  /\ stage = "full"
  /\ chat_kwargs = NoKwargs
  /\ requests = <<>>
  /\ initial_response = None
  /\ tool_results = <<>>
  /\ executed = <<>>
  /\ returned = None
  /\ raised = None
  /\ yielded = <<>>
  /\ chunks_read = 0
  /\ initial_content = <<>>
  /\ collected_tool_calls = <<>>
  /\ replies = <<>>
  /\ failures = <<>>
  /\ added = <<>>
  /\ client = ClientStart
  /\ client_yielded = <<>>

\* tool_results.append(tool_registry.execute_tool_call(tool_call))
BatchExecute ==
  /\ op = "add_tool_results"
  /\ pc = "start"
  /\ Len(executed) < MaxToolCalls
  /\ \E tool_call \in BatchCalls :
       /\ executed' = Append(executed, tool_call)
       /\ tool_results' = Append(tool_results, execute_tool_call(tools, tool_call))
  /\ UNCHANGED <<inputs, added, conversation, pc, phase, stage, chat_kwargs, requests,
                 initial_response, returned, raised, streaming, replies, failures>>

\* conversation.add_tool_results(tool_results)
BatchAddToolResults ==
  /\ op = "add_tool_results"
  /\ pc = "start"
  /\ conversation' = add_tool_results(conversation, tool_results)
  /\ pc' = "done"
  /\ UNCHANGED <<inputs, added, phase, stage, chat_kwargs, requests, initial_response,
                 tool_results, executed, returned, raised, streaming, replies, failures>>

NextBatch == BatchExecute \/ BatchAddToolResults

SpecBatch == InitBatch /\ [][NextBatch]_vars

\* ------------------------------------------------------------------------
\* Conversation on its own: a caller adding messages and clearing the log
\* ------------------------------------------------------------------------
Contents == { <<"h">>, <<>> }

\* results a caller may hand to add_tool_results
ToolResultPool ==
  { ToolResult(Some("call_1"), "add_two_numbers", Some(PyInt(8)), None),
    ToolResult(None, "get_time", None,
               Some(<<"Function '", "get_time", "' not found in registry">>)) }

\* a call on the Conversation, with the role and content it is expected to log
Call(name, role, content) == [call |-> name, role |-> role, content |-> content]

ClearCalls == {"clear", "clear_history"}

\* everything but the Conversation, the operation name and the call history
service == <<parameters, tools, auto_execute, backend, pc, phase, stage, chat_kwargs,
             requests, initial_response, tool_results, executed, returned, raised,
             streaming, replies, failures>>

InitConversation ==
  /\ op = "Conversation"
  /\ parameters = <<>>
  /\ tools = {}
  /\ auto_execute = TRUE
  /\ backend = [rejects |-> {}, flaky |-> FALSE]
  /\ conversation = <<>>
  /\ pc = "start"
  /\ phase = 1
  /\ stage = "full"
  /\ chat_kwargs = NoKwargs
  /\ requests = <<>>
  /\ initial_response = None
  /\ tool_results = <<>>
  /\ executed = <<>>
  /\ returned = None
  /\ raised = None
  /\ yielded = <<>>
  /\ chunks_read = 0
  /\ initial_content = <<>>
  /\ collected_tool_calls = <<>>
  /\ replies = <<>>
  /\ failures = <<>>
  /\ added = <<>>
  /\ client = ClientStart
  /\ client_yielded = <<>>

ConvAddSystemMessage ==
  /\ Len(added) < MaxCalls
  /\ \E content \in Contents :
       /\ conversation' = add_system_message(conversation, content)
       /\ added' = Append(added, Call("add_system_message", "system", content))
  /\ op' = "add_system_message"
  /\ UNCHANGED service

ConvAddUserMessage ==
  /\ Len(added) < MaxCalls
  /\ \E content \in Contents :
       /\ conversation' = add_user_message(conversation, content)
       /\ added' = Append(added, Call("add_user_message", "user", content))
  /\ op' = "add_user_message"
  /\ UNCHANGED service

ConvAddAssistantMessage ==
  /\ Len(added) < MaxCalls
  /\ \E content \in Contents :
       /\ conversation' = add_assistant_message(conversation, content)
       /\ added' = Append(added, Call("add_assistant_message", "assistant", content))
  /\ op' = "add_assistant_message"
  /\ UNCHANGED service

ConvAddToolMessage ==
  /\ Len(added) < MaxCalls
  /\ \E content \in Contents, tool_call_id \in {"call_1", ""} :
       /\ conversation' = add_tool_message(conversation, content, tool_call_id)
       /\ added' = Append(added, Call("add_tool_message", "tool", content))
  /\ op' = "add_tool_message"
  /\ UNCHANGED service

\* one call of add_tool_results: one logged message per result
ConvAddToolResults ==
  /\ Len(added) < MaxCalls
  /\ \E results \in DistinctSeqs(ToolResultPool, MaxToolCalls) :
       /\ results # <<>>
       /\ Len(added) + Len(results) <= MaxCalls
       /\ conversation' = add_tool_results(conversation, results)
       /\ added' = added \o [i \in 1..Len(results) |->
                               Call("add_tool_results", "tool",
                                    IF results[i].error # None
                                    THEN <<"Error executing ", results[i].function_name, ": ">>
                                         \o The(results[i].error)
                                    ELSE PyStrOf(results[i].result))]
  /\ op' = "add_tool_results"
  /\ UNCHANGED service

\* Conversation.clear, called directly or through OllamaChatClient.clear_history
ConvClear ==
  /\ Len(added) < MaxCalls
  /\ \E name \in ClearCalls :
       /\ added' = Append(added, Call(name, "", <<>>))
       /\ op' = name
  /\ conversation' = clear(conversation)
  /\ UNCHANGED service

NextConversation ==
  \/ ConvAddSystemMessage
  \/ ConvAddUserMessage
  \/ ConvAddAssistantMessage
  \/ ConvAddToolMessage
  \/ ConvAddToolResults
  \/ ConvClear

SpecConversation == InitConversation /\ [][NextConversation]_vars

\* ------------------------------------------------------------------------
\* The two decoders side by side: a reply delivered as chunks to stream_response,
\* and the same reply delivered whole to generate_response
\* ------------------------------------------------------------------------
\* chunk contents: text, whitespace, a whole reasoning span, and the pieces of a
\* reasoning span split across chunks
ChunkContents ==
  { <<"a">>, <<"b", " ">>, <<" ">>, <<>>,
    <<TO, "r", TC, " ", "b">>,
    <<TO>>, <<TO, "r">>, <<"r", TC>>, <<TC, "b">> }

\* the raw contents of the chunks streamed so far
StreamedContents ==
  [i \in 1..Len(yielded) |-> RawContent(The(yielded[i].raw_response))]

InitAccumulate ==
  /\ op = "accumulate"
  /\ parameters = <<>>
  /\ tools = {}
  /\ auto_execute = TRUE
  /\ backend = [rejects |-> {}, flaky |-> FALSE]
  /\ conversation = <<>>
  /\ pc = "start"
  /\ phase = 1
  /\ stage = "full"
  /\ chat_kwargs = NoKwargs
  /\ requests = <<>>
  /\ initial_response = None
  /\ tool_results = <<>>
  /\ executed = <<>>
  /\ returned = None
  /\ raised = None
  /\ yielded = <<>>
  /\ chunks_read = 0
  /\ initial_content = <<>>
  /\ collected_tool_calls = <<>>
  /\ replies = <<>>
  /\ failures = <<>>
  /\ added = <<>>
  /\ client = ClientStart
  /\ client_yielded = <<>>

\* stream_response decodes and yields one more chunk
AccumulateChunk ==
  /\ op = "accumulate"
  /\ pc = "start"
  /\ chunks_read < MaxChunks
  /\ \E content \in ChunkContents :
       yielded' = Append(yielded,
                         DecodeChunk(Reply(Some(content), None, None, Some(FALSE), None)))
  /\ chunks_read' = chunks_read + 1
  /\ UNCHANGED <<inputs, added, conversation, pc, phase, stage, chat_kwargs, requests,
                 initial_response, tool_results, executed, returned, raised,
                 initial_content, collected_tool_calls, client, client_yielded, replies,
                 failures>>

\* generate_response decodes the single reply whose content is the concatenation of
\* the chunks' contents
AccumulateWhole ==
  /\ op = "accumulate"
  /\ pc = "start"
  /\ LET reply == Reply(Some(Concat(StreamedContents)), None, None, Some(TRUE), None) IN
     /\ replies' = <<reply>>
     /\ returned' = Some(Decode(reply))
  /\ pc' = "done"
  /\ UNCHANGED <<inputs, added, conversation, phase, stage, chat_kwargs, requests,
                 initial_response, tool_results, executed, raised, streaming, failures>>

NextAccumulate == AccumulateChunk \/ AccumulateWhole

SpecAccumulate == InitAccumulate /\ [][NextAccumulate]_vars

\* ------------------------------------------------------------------------
\* Decoding on its own: generate_response decodes one reply
\* ------------------------------------------------------------------------
\* contents over the reasoning markers, a letter of reasoning, a blank and a letter
\* of answer
DecodeContents ==
  UNION { [1..k -> {TO, TC, "r", " ", "b"}] : k \in 0..MaxLen }

\* the dedicated thinking field: absent, empty, or holding text
ThinkingFields == { None, Some(<<>>), Some(<<"t">>) }

InitDecode ==
  /\ op = "decode"
  /\ parameters = <<>>
  /\ tools = {}
  /\ auto_execute = TRUE
  /\ backend = [rejects |-> {}, flaky |-> FALSE]
  /\ conversation = <<>>
  /\ pc = "start"
  /\ phase = 1
  /\ stage = "full"
  /\ chat_kwargs = NoKwargs
  /\ requests = <<>>
  /\ initial_response = None
  /\ tool_results = <<>>
  /\ executed = <<>>
  /\ returned = None
  /\ raised = None
  /\ yielded = <<>>
  /\ chunks_read = 0
  /\ initial_content = <<>>
  /\ collected_tool_calls = <<>>
  /\ replies = <<>>
  /\ failures = <<>>
  /\ added = <<>>
  /\ client = ClientStart
  /\ client_yielded = <<>>

\* the reply ollama.chat returned is decoded into the GenerationResponse
DecodeReply ==
  /\ op = "decode"
  /\ pc = "start"
  /\ \E content \in DecodeContents, thinking \in ThinkingFields :
       LET reply == Reply(Some(content), thinking, None, Some(TRUE), None) IN
       /\ replies' = <<reply>>
       /\ returned' = Some(Decode(reply))
  /\ pc' = "done"
  /\ UNCHANGED <<inputs, added, conversation, phase, stage, chat_kwargs, requests,
                 initial_response, tool_results, executed, raised, streaming, failures>>

NextDecode == DecodeReply

SpecDecode == InitDecode /\ [][NextDecode]_vars

\* ------------------------------------------------------------------------
\* Decoding a payload with missing parts (reply of generate_response, chunk of
\* stream_response); the replies and chunks of Replies and Chunks are all well formed
\* ------------------------------------------------------------------------
\* tool-call entries as the backend may send them: complete, without `function`,
\* without `name`, without `arguments`
PayloadEntries ==
  { RawToolCall("add_two_numbers", [a |-> PyStr(<<"5">>), b |-> PyStr(<<"3">>)], Some("call_1")),
    [id |-> Some("call_5")],
    [function |-> [arguments |-> <<>>], id |-> None],
    [function |-> [name |-> "add_two_numbers"], id |-> None] }

PayloadToolCalls ==
  {None} \cup { Some(tcs) : tcs \in UNION { [1..k -> PayloadEntries] : k \in 0..MaxToolCalls } }

Payloads ==
  { [message |-> None, done |-> done, prompt_eval_count |-> None] : done \in {None, Some(TRUE)} }
  \cup { [message |-> Some(RawMessage(content, thinking, tool_calls)),
          done |-> done, prompt_eval_count |-> None] :
           content \in {None, Some(<<"a">>)}, thinking \in {None, Some(<<"t">>)},
           tool_calls \in PayloadToolCalls, done \in {None, Some(TRUE)} }

\* tc["function"]["name"] and tc["function"]["arguments"] can be read
HasFunctionKeys(tc) ==
  /\ "function" \in DOMAIN tc
  /\ "name" \in DOMAIN tc.function
  /\ "arguments" \in DOMAIN tc.function

\* the list comprehension over message.tool_calls subscripts a key that is missing
ToolCallKeyError(response) ==
  /\ response.message # None
  /\ The(response.message).tool_calls # None
  /\ \E i \in 1..Len(The(The(response.message).tool_calls)) :
       ~HasFunctionKeys(The(The(response.message).tool_calls)[i])

KeyError == [kind |-> "KeyError", id |-> 0, names |-> {}]

InitPayload ==
  /\ op \in {"decode_reply", "decode_chunk"}
  /\ parameters = <<>>
  /\ tools = {}
  /\ auto_execute = TRUE
  /\ backend = [rejects |-> {}, flaky |-> FALSE]
  /\ conversation = <<>>
  /\ pc = "start"
  /\ phase = 1
  /\ stage = "full"
  /\ chat_kwargs = NoKwargs
  /\ requests = <<>>
  /\ initial_response = None
  /\ tool_results = <<>>
  /\ executed = <<>>
  /\ returned = None
  /\ raised = None
  /\ yielded = <<>>
  /\ chunks_read = 0
  /\ initial_content = <<>>
  /\ collected_tool_calls = <<>>
  /\ replies = <<>>
  /\ failures = <<>>
  /\ added = <<>>
  /\ client = ClientStart
  /\ client_yielded = <<>>

\* generate_response decodes the reply, stream_response decodes one chunk: the
\* GenerationResponse is returned (yielded), or the KeyError leaves the method
DecodePayload ==
  /\ op \in {"decode_reply", "decode_chunk"}
  /\ pc = "start"
  /\ \E payload \in Payloads :
       /\ replies' = <<payload>>
       /\ IF ToolCallKeyError(payload)
          THEN /\ raised' = Some(KeyError)
               /\ UNCHANGED returned
          ELSE /\ returned' = Some(IF op = "decode_chunk" THEN DecodeChunk(payload)
                                   ELSE Decode(payload))
               /\ UNCHANGED raised
  /\ pc' = "done"
  /\ UNCHANGED <<inputs, added, conversation, phase, stage, chat_kwargs, requests,
                 initial_response, tool_results, executed, streaming, failures>>

NextPayload == DecodePayload

SpecPayload == InitPayload /\ [][NextPayload]_vars

\* ------------------------------------------------------------------------
\* ModelParameters on its own: keys are set, then to_dict is called
\* ------------------------------------------------------------------------
ParamNames == {"temperature", "top_k", "max_tokens", "num_predict"}

ParamValues == {500, 1000}

\* ModelParameters(): nothing set
InitParams ==
  /\ op = "to_dict"
  /\ parameters = <<>>
  /\ tools = {}
  /\ auto_execute = TRUE
  /\ backend = [rejects |-> {}, flaky |-> FALSE]
  /\ conversation = <<>>
  /\ pc = "start"
  /\ phase = 1
  /\ stage = "full"
  /\ chat_kwargs = NoKwargs
  /\ requests = <<>>
  /\ initial_response = None
  /\ tool_results = <<>>
  /\ executed = <<>>
  /\ returned = None
  /\ raised = None
  /\ yielded = <<>>
  /\ chunks_read = 0
  /\ initial_content = <<>>
  /\ collected_tool_calls = <<>>
  /\ replies = <<>>
  /\ failures = <<>>
  /\ added = <<>>
  /\ client = ClientStart
  /\ client_yielded = <<>>

\* a keyword of the constructor, or params.name = value
ParamsSet ==
  /\ op = "to_dict"
  /\ pc = "start"
  /\ \E name \in ParamNames, value \in ParamValues :
       parameters' = SetParameter(parameters, name, value)
  /\ UNCHANGED <<op, tools, auto_execute, backend, added, conversation, pc, phase,
                 stage, chat_kwargs, requests, initial_response, tool_results,
                 executed, returned, raised, streaming, replies, failures>>

\* params.to_dict()
ParamsToDictCall ==
  /\ op = "to_dict"
  /\ pc = "start"
  /\ returned' = Some(to_dict(parameters))
  /\ pc' = "done"
  /\ UNCHANGED <<inputs, added, conversation, phase, stage, chat_kwargs, requests,
                 initial_response, tool_results, executed, raised, streaming,
                 replies, failures>>

NextParams == ParamsSet \/ ParamsToDictCall

SpecParams == InitParams /\ [][NextParams]_vars

\* ------------------------------------------------------------------------
\* One OllamaChatClient over several calls: chat, stream_chat generators that may be
\* advanced in any order, set_system_message. Calls without tool calls in the reply;
\* the tool round of a turn is the subject of Spec.
\* ------------------------------------------------------------------------
\* the user message of the i-th call: i letters
UserMessageOf(i) == [k \in 1..i |-> "q"]

SystemMessages == { <<"s">>, <<"t">> }

\* content of a reply, and of the chunks of a stream (a chunk may carry no text)
ChunkTexts == { <<>>, <<"a">> }

\* streams of one chunk and of two chunks
TurnStreams == { <<c>> : c \in ChunkTexts } \cup { <<c, d>> : c, d \in ChunkTexts }

\* what stream_response yields for a chunk carrying only text
TurnChunk(content) == DecodeChunk(Reply(Some(content), None, None, Some(FALSE), None))

\* variant of set_system_message that puts the new system message first
set_system_message_AtStart(messages, message) ==
  <<Message("system", message, None, None)>>
    \o SelectSeq(messages, LAMBDA msg : msg.role # "system")

\* OllamaChatClient.set_system_message
set_system_message(messages, message) ==
  add_system_message(SelectSeq(messages, LAMBDA msg : msg.role # "system"), message)

\* a call made on the client: its kind, its branch (auto: tools with auto_execute),
\* where it stands, the locals of its generator, the chunks not yet delivered, its
\* user message, whether a generator was suspended when it started, and the index
\* of its request
ClientCall(call, auto, at, cl, rest, message, overlapped, request) ==
  [call |-> call, auto |-> auto, pc |-> at, cl |-> cl, rest |-> rest,
   message |-> message, overlapped |-> overlapped, request |-> request]

\* some stream_chat generator is suspended at a yield
GeneratorOpen == \E i \in 1..Len(client) : client[i].pc = "suspended"

\* OllamaChatClient(system_message=None or a text)
InitClient ==
  /\ op = "client"
  /\ parameters = <<>>
  /\ tools = {}
  /\ auto_execute = TRUE
  /\ backend = [rejects |-> {}, flaky |-> TRUE]
  /\ conversation \in { <<>>, add_system_message(<<>>, <<"s">>) }
  /\ pc = "start"
  /\ phase = 1
  /\ stage = "full"
  /\ chat_kwargs = NoKwargs
  /\ requests = <<>>
  /\ initial_response = None
  /\ tool_results = <<>>
  /\ executed = <<>>
  /\ returned = None
  /\ raised = None
  /\ yielded = <<>>
  /\ chunks_read = 0
  /\ initial_content = <<>>
  /\ collected_tool_calls = <<>>
  /\ replies = <<>>
  /\ failures = <<>>
  /\ added = <<>>
  /\ client = <<>>
  /\ client_yielded = <<>>

\* everything the client calls leave alone
session == <<op, parameters, tools, auto_execute, backend, pc, phase, stage, chat_kwargs,
             initial_response, tool_results, executed, returned, raised, yielded,
             chunks_read, initial_content, collected_tool_calls, replies, failures,
             added, client_yielded>>

\* variant of AfterRaise that takes the user message back
AfterRaise_Rollback(messages) == SubSeq(messages, 1, Len(messages) - 1)

\* the exception of the service leaves chat / stream_chat: there is no try block, no
\* statement after the call runs and the user message already added stays
AfterRaise(messages) == messages

\* client.chat(message) returns: user message, request, assistant message
ClientChatReturns ==
  /\ op = "client"
  /\ Len(client) < MaxTurns
  /\ \E content \in ChunkTexts :
       LET message == UserMessageOf(Len(client) + 1)
           messages == add_user_message(conversation, message) IN
       /\ requests' = Append(requests, BuildKwargs(messages, parameters, {}, FALSE))
       /\ conversation' = add_assistant_message(messages, content)
       /\ client' = Append(client,
                           ClientCall("chat", FALSE, "returned", ClientStart, <<>>, message,
                                      GeneratorOpen, Len(requests) + 1))
  /\ UNCHANGED session

\* client.chat(message) raises: the request failed, nothing follows the user message
ClientChatRaises ==
  /\ op = "client"
  /\ Len(client) < MaxTurns
  /\ backend.flaky
  /\ LET message == UserMessageOf(Len(client) + 1)
         messages == add_user_message(conversation, message) IN
     /\ requests' = Append(requests, BuildKwargs(messages, parameters, {}, FALSE))
     /\ conversation' = AfterRaise(messages)
     /\ client' = Append(client,
                         ClientCall("chat", FALSE, "raised", ClientStart, <<>>, message,
                                    GeneratorOpen, Len(requests) + 1))
  /\ UNCHANGED session

\* the first next() on a new stream_chat generator: user message, request, then the
\* manual branch reads the whole stream and yields once, the auto-execute branch
\* yields the first chunk
ClientStreamChat ==
  /\ op = "client"
  /\ Len(client) < MaxTurns
  /\ \E auto \in BOOLEAN, stream \in TurnStreams :
       LET message == UserMessageOf(Len(client) + 1)
           messages == add_user_message(conversation, message)
           all_chunks == [k \in 1..Len(stream) |-> TurnChunk(stream[k])]
           RECURSIVE Read(_, _)
           Read(cl, chunks) ==
             IF chunks = <<>> THEN cl
             ELSE Read(ClientOnChunkManual(cl, Head(chunks)), Tail(chunks)) IN
       /\ requests' = Append(requests,
                             BuildKwargs(messages, parameters,
                                         IF auto THEN ToolNames ELSE {}, TRUE))
       /\ conversation' = messages
       /\ client' = Append(client,
            IF auto
            THEN ClientCall("stream_chat", TRUE, "suspended",
                            ClientOnChunkAuto(ClientStart, all_chunks[1]),
                            Tail(stream), message, GeneratorOpen, Len(requests) + 1)
            ELSE ClientCall("stream_chat", FALSE, "suspended",
                            Read(ClientStart, all_chunks),
                            <<>>, message, GeneratorOpen, Len(requests) + 1))
  /\ UNCHANGED session

\* the first next() raises: the request failed or the stream had no chunk
ClientStreamChatRaises ==
  /\ op = "client"
  /\ Len(client) < MaxTurns
  /\ backend.flaky
  /\ \E auto \in BOOLEAN :
       LET message == UserMessageOf(Len(client) + 1)
           messages == add_user_message(conversation, message) IN
       /\ requests' = Append(requests,
                             BuildKwargs(messages, parameters,
                                         IF auto THEN ToolNames ELSE {}, TRUE))
       /\ conversation' = AfterRaise(messages)
       /\ client' = Append(client,
                           ClientCall("stream_chat", auto, "raised", ClientStart, <<>>,
                                      message, GeneratorOpen, Len(requests) + 1))
  /\ UNCHANGED session

\* next() on a suspended generator: the auto-execute branch yields the next chunk;
\* when nothing is left the rest of stream_chat runs and the generator ends
ClientStreamNext ==
  /\ op = "client"
  /\ \E i \in 1..Len(client) :
       /\ client[i].pc = "suspended"
       /\ IF client[i].rest # <<>>
          THEN /\ client' = [client EXCEPT
                               ![i].cl = ClientOnChunkAuto(@, TurnChunk(Head(client[i].rest))),
                               ![i].rest = Tail(@)]
               /\ UNCHANGED conversation
          ELSE /\ client' = [client EXCEPT ![i].pc = "drained"]
               /\ conversation' = IF client[i].auto
                                  THEN ClientEpilogueAuto(conversation, client[i].cl)
                                  ELSE ClientEpilogueManual(conversation, client[i].cl)
  /\ UNCHANGED <<session, requests>>

\* client.set_system_message(message)
ClientSetSystemMessage ==
  /\ op = "client"
  /\ Len(client) < MaxTurns
  /\ \E message \in SystemMessages :
       /\ conversation' = set_system_message(conversation, message)
       /\ client' = Append(client,
                           ClientCall("set_system_message", FALSE, "returned", ClientStart,
                                      <<>>, message, GeneratorOpen, 0))
  /\ UNCHANGED <<session, requests>>

NextClient ==
  \/ ClientChatReturns
  \/ ClientChatRaises
  \/ ClientStreamChat
  \/ ClientStreamChatRaises
  \/ ClientStreamNext
  \/ ClientSetSystemMessage

SpecClient == InitClient /\ [][NextClient]_vars

\* ========================================================================
\* Properties
\* ========================================================================
IsPrefix(a, b) == Len(a) <= Len(b) /\ SubSeq(b, 1, Len(a)) = a

\* the tool calls a raw reply or chunk carries
RawCalls(reply) ==
  IF reply.message = None THEN <<>> ELSE GetOr(The(reply.message).tool_calls, <<>>)

\* streaming: the elements yielded before the first tool-result element
FirstPassLen ==
  IF \E i \in 1..Len(yielded) : yielded[i].tool_results # None
  THEN (CHOOSE i \in 1..Len(yielded) :
          /\ yielded[i].tool_results # None
          /\ \A j \in 1..(i - 1) : yielded[j].tool_results = None) - 1
  ELSE Len(yielded)

\* the tool calls of the first reply of the turn
FirstCalls ==
  IF op \in StreamOps
  THEN Concat([i \in 1..FirstPassLen |-> RawCalls(The(yielded[i].raw_response))])
  ELSE IF replies = <<>> THEN <<>> ELSE RawCalls(replies[1])

Resolved == pc = "done" /\ phase = 2 /\ returned # None

\* C1: when the first reply carries at least one tool call, the second is plain text
\* and no request fails, generate_response_with_tool_execution (tools supplied,
\* auto_execute true) issues exactly two backend requests and returns the content
\* decoded from the second reply.
C1_OneRoundResolution ==
  (/\ op = "generate_response_with_tool_execution" /\ tools # {} /\ auto_execute
   /\ failures = <<>>
   /\ Len(replies) >= 1 /\ RawCalls(replies[1]) # <<>>
   /\ (Len(replies) >= 2 => RawCalls(replies[2]) = <<>>))
  => /\ Len(requests) <= 2
     /\ pc = "done" =>
          /\ Len(requests) = 2
          /\ Len(replies) = 2
          /\ raised = None
          /\ returned # None
          /\ The(returned).content = DecodeContent(replies[2])

C1_Witness ==
  /\ op = "generate_response_with_tool_execution" /\ tools # {} /\ auto_execute
  /\ pc = "done" /\ failures = <<>>
  /\ Len(requests) = 2 /\ Len(replies) = 2
  /\ RawCalls(replies[1]) # <<>> /\ RawContent(replies[1]) = <<"a">>
  /\ RawCalls(replies[2]) = <<>> /\ RawContent(replies[2]) = <<TO, "r", TC, " ", "b">>
  /\ The(returned).content = <<"b">>

\* C2: at most one tool round per turn: in generate_response_with_tool_execution and
\* stream_response_with_tool_execution the tool calls executed are those of the first
\* reply only (tool calls carried by the resolve reply are never executed), and no
\* request is built over a history extended a second time.
C2_AtMostOneToolRound ==
  (op \in {"generate_response_with_tool_execution", "stream_response_with_tool_execution"})
  => /\ IsPrefix(executed, FirstCalls)
     /\ phase \in {1, 2}
     /\ (phase = 2 => executed = FirstCalls)
     /\ Cardinality({requests[i].messages : i \in 1..Len(requests)}) <= 2
     /\ (Resolved => Len(replies) = 2)

\* a drained streaming turn whose second pass carried a tool call
C2_Witness ==
  /\ op = "stream_response_with_tool_execution"
  /\ pc = "done" /\ phase = 2 /\ raised = None
  /\ executed # <<>>
  /\ \E i \in (FirstPassLen + Len(executed) + 1)..Len(yielded) : Truthy(yielded[i].tool_calls)

\* C3 as stated: when the reply carries no tool calls,
\* generate_response_with_tool_execution issues exactly one backend request, executes
\* no tool, and returns that reply's content with tool_calls = None and
\* tool_results = None.
C3_Original ==
  (/\ op = "generate_response_with_tool_execution"
   /\ pc = "done" /\ returned # None
   /\ RawCalls(replies[1]) = <<>>)
  => /\ Len(requests) = 1
     /\ executed = <<>>
     /\ The(returned).content = RawContent(replies[1])
     /\ The(returned).tool_calls = None
     /\ The(returned).tool_results = None

\* C3 (amended): when the reply carries no tool calls and no request failed,
\* generate_response_with_tool_execution issues exactly one backend request, executes
\* no tool, and returns that reply's decoded content (a paired reasoning span removed)
\* with tool_results = None and with tool_calls None when the reply has no tool_calls
\* field and the empty list when the field is an empty list.
C3_NoToolPassthrough ==
  (/\ op = "generate_response_with_tool_execution"
   /\ pc = "done" /\ returned # None
   /\ failures = <<>>
   /\ RawCalls(replies[1]) = <<>>)
  => /\ Len(requests) = 1
     /\ executed = <<>>
     /\ (~HasMatch(RawContent(replies[1]))
           => The(returned).content = RawContent(replies[1]))
     /\ (HasMatch(RawContent(replies[1]))
           => The(returned).content = Strip(RemoveThink(RawContent(replies[1]))))
     /\ The(returned).tool_calls = The(replies[1].message).tool_calls
     /\ ~Truthy(The(returned).tool_calls)
     /\ The(returned).tool_results = None

C3_Witness ==
  /\ op = "generate_response_with_tool_execution" /\ tools # {} /\ auto_execute
  /\ pc = "done" /\ failures = <<>> /\ Len(requests) = 1
  /\ RawContent(replies[1]) = <<TO, "r", TC, " ", "b">>
  /\ The(replies[1].message).tool_calls = None
  /\ The(returned).content = <<"b">>
  /\ The(returned).tool_calls = None

\* C4: manual mode: with auto_execute false, generate_response_with_tool_execution and
\* client.chat return the first decoded reply with its tool calls exposed raw; no tool
\* function is invoked, tool_results stays None, and exactly one backend request is
\* issued when no request failed.
C4_ManualMode ==
  (op \in {"generate_response_with_tool_execution", "chat"} /\ ~auto_execute)
  => /\ executed = <<>>
     /\ (pc = "done" /\ returned # None) =>
          /\ Len(replies) = 1
          /\ The(returned).content = DecodeContent(replies[1])
          /\ The(returned).tool_calls = The(replies[1].message).tool_calls
          /\ The(returned).tool_results = None
          /\ (failures = <<>> => Len(requests) = 1)

C4_Witness ==
  /\ op = "chat" /\ ~auto_execute /\ tools # {}
  /\ pc = "done" /\ returned # None /\ Len(requests) = 1
  /\ Len(RawCalls(replies[1])) = 2
  /\ The(returned).tool_calls = Some(RawCalls(replies[1]))
  /\ executed = <<>>

\* C5 as stated: for a backend that rejects tools and/or think, names a rejected
\* feature in each failure and accepts any request free of the features it rejects,
\* generate_response and stream_response deliver a reply instead of raising the
\* rejection, whatever features are supplied and in whatever order they are reported.
C5_CapabilityMismatchRecoverable ==
  (/\ op \in {"generate_response", "stream_response"}
   /\ ~backend.flaky
   /\ pc = "done")
  => (raised = None \/ The(raised).kind # "ResponseError")

\* C6: a failure of the first request whose text names neither tools nor think leaves
\* generate_response as the same exception, after exactly one backend request.
C6_UnrecognizedFailurePropagates ==
  (/\ op = "generate_response"
   /\ failures # <<>>
   /\ failures[1].names = {})
  => /\ pc = "done"
     /\ raised = Some(failures[1])
     /\ returned = None
     /\ Len(requests) = 1
     /\ Len(failures) = 1

C6_Witness ==
  /\ op = "generate_response" /\ tools # {} /\ HasThink(parameters)
  /\ pc = "done"
  /\ raised # None /\ The(raised).names = {}
  /\ Len(requests) = 1 /\ requests[1].tools # {} /\ requests[1].think # None

\* C7: on the resolved path the response of generate_response_with_tool_execution has
\* content, finish_reason and usage of the final (second) reply, the tool calls of the
\* first reply, and as tool_results the results of executing those calls, in order.
C7_Compose ==
  (op \in {"generate_response_with_tool_execution", "chat"} /\ Resolved)
  => LET first == replies[1]
         final == replies[2]
         ret == The(returned) IN
     /\ ret.content = DecodeContent(final)
     /\ ret.finish_reason = final.done
     /\ ret.usage = Some(final.prompt_eval_count)
     /\ ret.tool_calls = Some(RawCalls(first))
     /\ ret.tool_results =
          Some([i \in 1..Len(RawCalls(first)) |-> execute_tool_call(tools, RawCalls(first)[i])])

C7_Witness ==
  /\ op = "generate_response_with_tool_execution" /\ Resolved
  /\ replies[1].done = Some(TRUE) /\ replies[2].done = None
  /\ replies[1].prompt_eval_count = Some(10) /\ replies[2].prompt_eval_count = None
  /\ The(returned).finish_reason = None
  /\ The(returned).usage = Some(None)
  /\ Len(The(The(returned).tool_results)) = 2

\* C8 as stated: with thinking enabled, when a reply of the turn carries a reasoning
\* trace, the response client.chat(message, tools=...) returns after the tool calls
\* were executed and resolved has a non-None thinking.
C8_ThinkingDeliveredWithTools ==
  (/\ op = "chat" /\ tools # {} /\ auto_execute
   /\ HasThink(parameters) /\ parameters["think"]
   /\ Resolved
   /\ \E i \in 1..Len(replies) : Truthy(DecodeThinking(replies[i])))
  => The(returned).thinking # None

\* C9: executing a tool call whose function name is not registered yields a ToolResult
\* with result None and a non-empty error that carries the call's id and function
\* name; the execution hands back a result (it does not raise).
C9_UnknownTool ==
  /\ Len(tool_results) = Len(executed)
  /\ \A i \in 1..Len(executed) :
       executed[i].function.name \notin tools
       => /\ tool_results[i].result = None
          /\ tool_results[i].error # None
          /\ The(tool_results[i].error) # <<>>
          /\ tool_results[i].tool_call_id = executed[i].id
          /\ tool_results[i].function_name = executed[i].function.name

C9_Witness ==
  /\ executed # <<>>
  /\ executed[1].function.name = "get_time"
  /\ "get_time" \notin tools
  /\ tool_results[1].tool_call_id = Some("call_3")
  /\ Truthy(tool_results[1].error)

\* C10: during auto-resolve every tool call of the first reply is executed exactly
\* once, in the order returned, whether or not earlier calls failed; tool_results has
\* one entry per tool call, in the same order, carrying that call's id and function
\* name.
C10_BatchIsolation ==
  (WithToolExecution \/ op = "stream_response_with_tool_execution")
  => /\ Len(tool_results) = Len(executed)
     /\ IsPrefix(executed, FirstCalls)
     /\ \A i \in 1..Len(tool_results) :
          /\ tool_results[i].tool_call_id = executed[i].id
          /\ tool_results[i].function_name = executed[i].function.name
     /\ (phase = 2 => executed = FirstCalls)
     /\ (Resolved => The(returned).tool_results = Some(tool_results))

\* a batch whose first call failed and whose second call succeeded
C10_Witness ==
  /\ phase = 2
  /\ Len(executed) = 2
  /\ Truthy(tool_results[1].error)
  /\ tool_results[2].error = None
  /\ tool_results[2].result = Some(PyInt(8))

\* a tool call the registry cannot complete: unknown name, or the function raises
FailsToExecute(tool_call) ==
  \/ tool_call.function.name \notin tools
  \/ ~Invoke(tool_call.function.name, tool_call.function.arguments).ok

\* the tool messages at the end of the last request issued
ToolMessagesSent ==
  LET sent == requests[Len(requests)].messages IN
  SubSeq(sent, Len(sent) - Len(tool_results) + 1, Len(sent))

\* C11: tool failures never halt a turn: in generate_response_with_tool_execution and
\* stream_response_with_tool_execution, when an executed tool call fails (unknown name
\* or a function that raises) the failure is recorded in the error of its tool result,
\* the loop goes on to the remaining calls, the resolve request is issued with one
\* "Error executing ..." tool message for it, and the only exception that can reach
\* the caller is the one of a backend request.
C11_ToolFailuresNeverHalt ==
  (/\ op \in {"generate_response_with_tool_execution", "stream_response_with_tool_execution"}
   /\ \E i \in 1..Len(executed) : FailsToExecute(executed[i]))
  => /\ Len(tool_results) = Len(executed)
     /\ \A i \in 1..Len(executed) :
          FailsToExecute(executed[i]) <=> Truthy(tool_results[i].error)
     /\ (raised # None => /\ The(raised).kind \in {"ResponseError", "RuntimeError"}
                          /\ The(raised).id = Len(requests)
                          /\ phase = 2)
     /\ (Len(executed) < Len(FirstCalls) => pc \in {"execute", "s_execute"})
     /\ (Len(executed) = Len(FirstCalls) => phase = 2)
     /\ (pc = "done" =>
           /\ Len(requests) >= 2
           /\ requests[Len(requests)].tools = {}
           /\ \A i \in 1..Len(tool_results) :
                /\ ToolMessagesSent[i].role = "tool"
                /\ ToolMessagesSent[i].content = ToolResultContent(tool_results[i])
                /\ (FailsToExecute(executed[i]) =>
                      /\ Len(ToolMessagesSent[i].content) >= 3
                      /\ SubSeq(ToolMessagesSent[i].content, 1, 3)
                           = <<"Error executing ", executed[i].function.name, ": ">>))
     /\ (pc = "done" /\ returned # None =>
           /\ The(returned).tool_results = Some(tool_results)
           /\ The(returned).content = DecodeContent(replies[Len(replies)]))

\* a resolved turn whose first tool call raised and whose second was unknown
C11_Witness ==
  /\ op = "generate_response_with_tool_execution"
  /\ pc = "done" /\ returned # None /\ Len(executed) = 2
  /\ executed[1].function.name = "add_two_numbers" /\ FailsToExecute(executed[1])
  /\ executed[2].function.name = "get_time"
  /\ Len(requests) = 2

\* the integer a string of digit characters denotes (SUPERSCRIPT TWO denotes 2)
RECURSIVE DenotedInt(_)
DenotedInt(str) ==
  IF str = <<>> THEN 0
  ELSE 10 * DenotedInt(SubSeq(str, 1, Len(str) - 1))
       + (IF str[Len(str)] = Superscript2 THEN 2 ELSE DigitVal(str[Len(str)]))

\* the coercion as the claim states it
CoercedAsClaimed(value) ==
  IF value.t = "str" /\ IsDigit(value.v) THEN PyInt(DenotedInt(value.v))
  ELSE IF value.t = "str" /\ FloatParses(value.v) THEN PyFloat(FloatOf(value.v))
  ELSE value

\* C12: argument coercion: execute_tool_call coerces each argument independently and
\* then invokes the registered function: a string of digits becomes the integer it
\* denotes, any other string a float when it parses as one and otherwise stays the
\* string, a non-string value is passed unchanged; the tool result is what the
\* function returns (or the text of what it raises) on the coerced arguments.
C12_ArgumentCoercion ==
  (/\ op = "execute_tool_call" /\ pc = "done"
   /\ executed[1].function.name \in tools)
  => LET args == executed[1].function.arguments
         out == CallFunction(executed[1].function.name,
                             [key \in DOMAIN args |-> CoercedAsClaimed(args[key])]) IN
     /\ tool_results[1].result = out.value
     /\ tool_results[1].error = (IF out.ok THEN None ELSE Some(out.msg))

\* role and content of every entry of a message history
RoleContent(history) ==
  [i \in 1..Len(history) |-> [role |-> history[i].role, content |-> history[i].content]]

\* the position of the last clear among the calls made (0 when there is none)
LastClear(calls) ==
  IF \E i \in 1..Len(calls) : calls[i].call \in ClearCalls
  THEN CHOOSE i \in 1..Len(calls) :
         /\ calls[i].call \in ClearCalls
         /\ \A j \in (i + 1)..Len(calls) : calls[j].call \notin ClearCalls
  ELSE 0

\* what the additions made since the last clear are expected to have logged
Expected(calls) ==
  [i \in 1..(Len(calls) - LastClear(calls)) |->
     [role |-> calls[LastClear(calls) + i].role,
      content |-> calls[LastClear(calls) + i].content]]

\* C13: append-only log: after any sequence of add_system_message, add_user_message,
\* add_assistant_message, add_tool_message and add_tool_results calls the message
\* history has exactly one entry per added message, in call order, with role and
\* content as given; and every call other than clear leaves the previous history as a
\* prefix of the new one.
C13_AppendOnlyLog ==
  /\ [](RoleContent(get_message_history(conversation)) = Expected(added))
  /\ [][op' \notin ClearCalls =>
          IsPrefix(get_message_history(conversation), get_message_history(conversation'))]_vars

\* four messages of four roles, two of them added by one add_tool_results call
C13_Witness ==
  /\ Len(added) = 4 /\ LastClear(added) = 0
  /\ added[1].call = "add_user_message" /\ added[2].call = "add_assistant_message"
  /\ added[3].call = "add_tool_results" /\ added[4].call = "add_tool_results"
  /\ Len(get_message_history(conversation)) = 4
  /\ get_message_history(conversation)[3].tool_call_id # get_message_history(conversation)[4].tool_call_id

\* C14: after Conversation.clear (also through OllamaChatClient.clear_history) the
\* history is empty whatever was logged before, the system message included, and the
\* history is from then on exactly the messages added after the clear.
C14_Clear ==
  /\ (op \in ClearCalls => get_message_history(conversation) = <<>>)
  /\ (LastClear(added) > 0 =>
        /\ Len(get_message_history(conversation)) = Len(added) - LastClear(added)
        /\ \A i \in 1..Len(conversation) :
             /\ conversation[i].role = added[LastClear(added) + i].role
             /\ conversation[i].content = added[LastClear(added) + i].content)

\* a system and a user message, then clear_history, then one new message
C14_Witness ==
  /\ Len(added) = 4
  /\ added[1].call = "add_system_message" /\ added[2].call = "add_user_message"
  /\ added[3].call = "clear_history" /\ added[4].call = "add_user_message"
  /\ Len(get_message_history(conversation)) = 1

\* C15: history after an auto-resolved chat turn: when client.chat completes on the
\* auto-execute path with tool calls executed, the conversation has gained, in this
\* order, the user message, an assistant message carrying the tool calls of the first
\* reply, one tool message per tool result, and last an assistant message with the
\* final content and without tool calls.
C15_HistoryAfterAutoResolvedChat ==
  (op = "chat" /\ tools # {} /\ auto_execute /\ Resolved)
  => LET before == Len(requests[1].messages)
         n == Len(tool_results) IN
     /\ Len(conversation) = before + n + 2
     /\ conversation[before].role = "user"
     /\ conversation[before].content = UserMessage
     /\ conversation[before + 1].role = "assistant"
     /\ conversation[before + 1].tool_calls = The(returned).tool_calls
     /\ \A i \in 1..n : conversation[before + 1 + i].role = "tool"
     /\ conversation[before + n + 2].role = "assistant"
     /\ conversation[before + n + 2].content = The(returned).content
     /\ conversation[before + n + 2].tool_calls = None

\* C16: abandoned stream: when the caller of client.stream_chat stops iterating after
\* the first element and before the generator is exhausted, the conversation is the
\* history before the call plus exactly the new user message, on the auto-execute and
\* on the manual path: no assistant or tool message of the turn is recorded.
C16_AbandonedStream ==
  (op = "stream_chat" /\ pc = "abandoned")
  => /\ client_yielded # <<>>
     /\ get_message_history(conversation) = requests[1].messages
     /\ conversation[Len(conversation)] = Message("user", UserMessage, None, None)
     /\ \A i \in 1..Len(conversation) : conversation[i].role \in {"system", "user"}

\* abandoned on the auto-execute path after a tool result was yielded
C16_Witness ==
  /\ op = "stream_chat" /\ ClientAuto /\ pc = "abandoned"
  /\ executed # <<>>
  /\ client.all_tool_results # <<>>
  /\ Len(client_yielded) >= 2

\* C17: streaming phase order: stream_response_with_tool_execution yields the
\* first-pass deltas, then (tool calls accumulated, auto-execution on) exactly one
\* response per executed tool call, in tool-call order, with empty content and
\* tool_results holding that one result, then the second-pass deltas: no tool-result
\* response before the first stream ended, no second-pass delta before the last
\* tool-result response.
C17_StreamingPhaseOrder ==
  (op = "stream_response_with_tool_execution")
  => /\ Len(yielded) >= FirstPassLen + Len(executed)
     /\ IsPrefix(executed, collected_tool_calls)
     /\ \A k \in 1..Len(executed) :
          /\ yielded[FirstPassLen + k].content = <<>>
          /\ yielded[FirstPassLen + k].tool_results = Some(<<tool_results[k]>>)
          /\ tool_results[k].function_name = executed[k].function.name
          /\ tool_results[k].tool_call_id = executed[k].id
     /\ \A i \in 1..Len(yielded) :
          (i <= FirstPassLen \/ i > FirstPassLen + Len(executed))
            => yielded[i].tool_results = None /\ yielded[i].raw_response # None
     /\ (executed # <<>> =>
           /\ auto_execute /\ tools # {}
           /\ collected_tool_calls = FirstCalls
           /\ (phase = 1 => pc = "s_execute"))
     /\ (Len(yielded) > FirstPassLen + Len(executed) /\ executed # <<>> =>
           /\ phase = 2
           /\ executed = collected_tool_calls)
     /\ (pc = "done" /\ raised = None /\ auto_execute /\ tools # {} =>
           executed = collected_tool_calls)

\* a drained turn: one first-pass delta at least, two tool results, a second pass
C17_Witness ==
  /\ op = "stream_response_with_tool_execution"
  /\ pc = "done" /\ raised = None
  /\ FirstPassLen >= 1 /\ Len(executed) = 2
  /\ Len(yielded) > FirstPassLen + 2

\* C18: client.stream_chat without auto-execution (no tools, or auto_execute false)
\* yields every chunk produced by the service's stream, one element per backend
\* chunk, in arrival order, and terminates normally for a stream of any length.
C18_StreamChatYieldsEveryChunk ==
  (op = "stream_chat" /\ ~ClientAuto /\ failures = <<>>)
  => /\ (pc \in {"c_yield", "done"} /\ raised = None => client_yielded = yielded)
     /\ (pc = "done" => raised = None)

C20_StreamingAccumulation ==
  (op = "accumulate" /\ pc = "done")
  => Concat([i \in 1..Len(yielded) |-> yielded[i].content]) = The(returned).content

\* the text between the tags of the first paired reasoning span
Enclosed(content) == SubSeq(content, MatchStart(content) + 1, MatchEnd(content) - 1)

\* C21 as stated: when the content holds a paired reasoning span and the reply has no
\* dedicated thinking field, the decoded thinking is the enclosed text and the decoded
\* content is the content with the span removed; when a dedicated thinking field is
\* present it is kept as thinking and the span is still removed from the content.
C21_Original ==
  (op = "decode" /\ pc = "done" /\ HasMatch(RawContent(replies[1])))
  => LET raw == RawContent(replies[1])
         field == RawThinking(replies[1]) IN
     /\ The(returned).content = RemoveThink(raw)
     /\ (field = None => The(returned).thinking = Some(Enclosed(raw)))
     /\ (field # None => The(returned).thinking = field)

\* C21 (amended): when the content holds a paired reasoning span, the decoded content
\* is the content with every such span removed and then stripped of surrounding
\* whitespace; the decoded thinking is the dedicated field when that field is present
\* and not empty, and otherwise the text enclosed by the first span, stripped. Without
\* a paired span content and thinking field are returned as they are.
C21_ThinkingExtraction ==
  (op = "decode" /\ pc = "done")
  => LET raw == RawContent(replies[1])
         field == RawThinking(replies[1]) IN
     IF HasMatch(raw)
     THEN /\ The(returned).content = Strip(RemoveThink(raw))
          /\ (field = None \/ field = Some(<<>>)
                => The(returned).thinking = Some(Strip(Enclosed(raw))))
          /\ (field # None /\ field # Some(<<>>) => The(returned).thinking = field)
     ELSE /\ The(returned).content = raw
          /\ The(returned).thinking = field

\* "<think>r</think>b" without a thinking field decodes to thinking "r", content "b"
C21_Witness ==
  /\ op = "decode" /\ pc = "done"
  /\ RawContent(replies[1]) = <<TO, "r", TC, "b">>
  /\ RawThinking(replies[1]) = None
  /\ The(returned).thinking = Some(<<"r">>)
  /\ The(returned).content = <<"b">>

\* the keys set on the parameters, and the value and the place of one of them
KeysSet == { parameters[i].key : i \in 1..Len(parameters) }

PlaceOf(name) == CHOOSE i \in 1..Len(parameters) : parameters[i].key = name

ValueOf(name) == parameters[PlaceOf(name)].value

FullRequestRejected ==
  /\ op = "generate_response"
  /\ Len(requests) >= 1 /\ Len(failures) >= 1
  /\ requests[1].tools # {} /\ requests[1].think # None
  /\ failures[1].id = 1 /\ failures[1].names # {}

\* C23 as stated: after a capability failure of a request carrying tools and a think
\* flag, the retries are (tools removed, thinking kept) and then, only if that attempt
\* fails, (both removed), also when the failure text names both features.
C23_Original ==
  FullRequestRejected
  => /\ Len(requests) >= 2 => requests[2] = [requests[1] EXCEPT !.tools = {}]
     /\ Len(requests) >= 3
          => /\ Len(failures) >= 2 /\ failures[2].id = 2
             /\ requests[3] = [requests[1] EXCEPT !.tools = {}, !.think = None]

\* C23 (amended): when the failure text names tools and not thinking, the retries are
\* (tools removed, thinking kept) and then, only if that attempt fails, (both removed);
\* when the text names both features there is one retry, with both removed; when it
\* names thinking only there is one retry, with thinking removed and the tools kept.
C23_FallbackLadderOrder ==
  FullRequestRejected
  => LET names == failures[1].names IN
     /\ names = {"tools"}
          => /\ Len(requests) >= 2 => requests[2] = [requests[1] EXCEPT !.tools = {}]
             /\ Len(requests) >= 3
                  => /\ Len(failures) >= 2 /\ failures[2].id = 2
                     /\ requests[3] = [requests[1] EXCEPT !.tools = {}, !.think = None]
             /\ Len(requests) <= 3
     /\ names = {"tools", "think"}
          => /\ Len(requests) >= 2
                  => requests[2] = [requests[1] EXCEPT !.tools = {}, !.think = None]
             /\ Len(requests) <= 2
     /\ names = {"think"}
          => /\ Len(requests) >= 2 => requests[2] = [requests[1] EXCEPT !.think = None]
             /\ Len(requests) <= 2

\* the failure named tools, the retry with thinking kept failed, the third request
\* without both was answered
C23_Witness ==
  /\ FullRequestRejected
  /\ failures[1].names = {"tools"}
  /\ Len(requests) = 3 /\ Len(failures) = 2
  /\ requests[2].think # None /\ requests[2].tools = {}
  /\ requests[3].think = None /\ requests[3].tools = {}
  /\ returned # None

\* C24: when the first request fails with a capability failure and every fallback
\* attempt fails too, the exception generate_response propagates is the failure of the
\* first request, not that of a fallback attempt.
C24_OriginalFailureSurfaced ==
  (/\ op = "generate_response"
   /\ raised # None
   /\ Len(failures) >= 2
   /\ failures[1].names # {})
  => The(raised) = failures[1]

\* the second request of a tool round is in requests: the first one whose messages
\* are not those of the first request
HasSecondRequest ==
  /\ op \in {"generate_response_with_tool_execution", "stream_response_with_tool_execution"}
  /\ \E i \in 1..Len(requests) : requests[i].messages # requests[1].messages

SecondRequest ==
  requests[CHOOSE i \in 1..Len(requests) :
             /\ requests[i].messages # requests[1].messages
             /\ \A j \in 1..(i - 1) : requests[j].messages = requests[1].messages]

\* C25: the second backend request of generate_response_with_tool_execution, and the
\* second stream of stream_response_with_tool_execution, carries no tools list and no
\* think flag, whatever the caller's parameters, think = True included.
C25_SecondRequestShape ==
  HasSecondRequest => SecondRequest.tools = {} /\ SecondRequest.think = None

\* the content and the tool calls of the first reply, as decoded
FirstContent ==
  IF op \in StreamOps
  THEN Concat([i \in 1..FirstPassLen |-> yielded[i].content])
  ELSE DecodeContent(replies[1])

\* C26: the messages of the second request are the caller's history at the time of
\* the call, then one assistant message carrying the decoded content of the first
\* reply and its tool calls (name and arguments as emitted), then one tool message per
\* tool result in tool-call order; nothing is inserted, dropped or reordered.
C26_ExtendedHistory ==
  HasSecondRequest
  => LET history == requests[1].messages
         sent == SecondRequest.messages
         n == Len(history)
         calls == FirstCalls IN
     /\ Len(tool_results) = Len(calls)
     /\ Len(sent) = n + 1 + Len(calls)
     /\ SubSeq(sent, 1, n) = history
     /\ sent[n + 1].role = "assistant"
     /\ sent[n + 1].content = FirstContent
     /\ sent[n + 1].tool_calls =
          Some([k \in 1..Len(calls) |->
                  [function |-> [name |-> calls[k].function.name,
                                 arguments |-> calls[k].function.arguments]]])
     /\ \A k \in 1..Len(calls) :
          /\ sent[n + 1 + k].role = "tool"
          /\ sent[n + 1 + k].tool_calls = None
          /\ tool_results[k].function_name = calls[k].function.name
          /\ tool_results[k].tool_call_id = calls[k].id
          /\ sent[n + 1 + k].content = ToolResultContent(tool_results[k])

\* a history of two messages was extended by the assistant message and two tool
\* messages, and the second request was answered
C26_Witness ==
  /\ op = "generate_response_with_tool_execution"
  /\ HasSecondRequest
  /\ Len(requests[1].messages) = 2
  /\ Len(FirstCalls) = 2
  /\ Len(SecondRequest.messages) = 5
  /\ returned # None

ServiceOps ==
  {"generate_response", "generate_response_with_tool_execution",
   "stream_response", "stream_response_with_tool_execution"}

\* C27: generate_response, generate_response_with_tool_execution, stream_response and
\* stream_response_with_tool_execution leave the caller's Conversation unchanged: no
\* step of any of them, on the success path, the resolve path or a failure path,
\* changes its message sequence (length, order, and each message's role, content,
\* tool_calls, tool_call_id).
C27_WorkingCopy ==
  [][(op \in ServiceOps) => UNCHANGED conversation]_vars

\* a tool round on a history of two messages has ended and the history is still the
\* one the first request was built from
C27_Witness ==
  /\ op \in {"generate_response_with_tool_execution", "stream_response_with_tool_execution"}
  /\ pc = "done"
  /\ executed # <<>>
  /\ Len(requests) >= 2
  /\ Len(conversation) = 2
  /\ get_message_history(conversation) = requests[1].messages

\* C28: every tool-role entry the orchestration places in a history sent to the
\* backend, and every tool message the client records, carries a tool_call_id that
\* references the tool call it resolves, also when the backend's tool call arrived
\* without an id.
C28_ToolMessageCorrelation ==
  /\ \A i \in 1..Len(requests) :
       \A j \in (Len(requests[1].messages) + 1)..Len(requests[i].messages) :
         requests[i].messages[j].role = "tool"
           => requests[i].messages[j].tool_call_id \notin {None, Some("")}
  /\ \A j \in 1..Len(conversation) :
       conversation[j].role = "tool"
         => conversation[j].tool_call_id \notin {None, Some("")}

\* the concatenated content deltas of the second pass of a resolved stream
SecondPassContent ==
  Concat([i \in 1..(Len(yielded) - FirstPassLen - Len(tool_results)) |->
            yielded[FirstPassLen + Len(tool_results) + i].content])

\* C29: when client.stream_chat(message, tools) is consumed to exhaustion and tool
\* calls were executed, the conversation gains the user message, then an assistant
\* message carrying the tool calls whose content is the concatenation of the
\* first-pass content deltas, then one tool message per tool result, then an assistant
\* message whose content is the concatenation of the second-pass deltas.
C29_HistoryAfterDrainedStream ==
  (/\ op = "stream_chat" /\ ClientAuto
   /\ pc = "done" /\ raised = None
   /\ executed # <<>>
   /\ SecondPassContent # <<>>)
  => LET before == Len(requests[1].messages)
         n == Len(tool_results) IN
     /\ Len(conversation) = before + n + 2
     /\ conversation[before] = Message("user", UserMessage, None, None)
     /\ conversation[before + 1].role = "assistant"
     /\ conversation[before + 1].content = FirstContent
     /\ conversation[before + 1].tool_calls = Some(FirstCalls)
     /\ \A i \in 1..n :
          /\ conversation[before + 1 + i].role = "tool"
          /\ conversation[before + 1 + i].content = ToolResultContent(tool_results[i])
     /\ conversation[before + n + 2].role = "assistant"
     /\ conversation[before + n + 2].content = SecondPassContent
     /\ conversation[before + n + 2].tool_calls = None

\* C30: add_tool_results appends exactly one tool message per result, in order, whose
\* content is "Error executing {fn}: {err}" for every result of a failed tool call
\* (unknown function, or a function that raised, whatever the exception's message, an
\* empty one included) and the stringified return value for every successful call.
C30_FailedResultsUseSentinel ==
  (op = "add_tool_results" /\ pc = "done")
  => LET n == Len(tool_results)
         before == Len(conversation) - n IN
     /\ before >= 0
     /\ SubSeq(conversation, 1, before) \in Histories
     /\ \A k \in 1..n :
          /\ conversation[before + k].role = "tool"
          /\ conversation[before + k].content =
               IF FailsToExecute(executed[k])
               THEN <<"Error executing ", executed[k].function.name, ": ">>
                      \o The(tool_results[k].error)
               ELSE PyStrOf(tool_results[k].result)

\* C31: for a reply or chunk in which an expected field is missing (no message, no
\* content, no thinking, no tool_calls, or a tool-call entry lacking function, name or
\* arguments), decoding in generate_response and stream_response raises nothing and
\* treats the missing part as absent: empty content, thinking None, no tool calls.
C31_MalformedPayloadTolerance ==
  (op \in {"decode_reply", "decode_chunk"} /\ pc = "done")
  => LET payload == replies[1] IN
     /\ raised = None
     /\ returned # None
     /\ (payload.message = None \/ The(payload.message).content = None)
          => The(returned).content = <<>>
     /\ (payload.message = None \/ The(payload.message).thinking = None)
          => The(returned).thinking = None
     /\ (payload.message = None \/ The(payload.message).tool_calls = None)
          => The(returned).tool_calls = None

\* exactly two calls were made on the client, both stream_chat, both drained
TwoStreamsDrained ==
  /\ op = "client"
  /\ Len(client) = 2
  /\ \A i \in 1..2 : client[i].call = "stream_chat" /\ client[i].pc = "drained"

\* no call was started while a generator was suspended
OneAtATime == \A i \in 1..Len(client) : ~client[i].overlapped

\* the two user messages are adjacent in the history, and the second turn's request
\* held the first turn's user message directly followed by its own
UserMessagesAdjacent ==
  /\ \E j \in 1..(Len(conversation) - 1) :
       /\ conversation[j] = Message("user", client[1].message, None, None)
       /\ conversation[j + 1] = Message("user", client[2].message, None, None)
  /\ LET sent == requests[client[2].request].messages IN
     /\ Len(sent) >= 2
     /\ sent[Len(sent) - 1].role = "user"
     /\ sent[Len(sent) - 1].content = client[1].message
     /\ sent[Len(sent)].content = client[2].message

\* C32 as stated (the part about serialized turns): when two stream_chat generators
\* of one client are run one at a time and both are drained, no state is reached in
\* which the two user messages are adjacent and a turn's request held the other
\* turn's user message without its reply.
C32_Original ==
  (TwoStreamsDrained /\ OneAtATime) => ~UserMessagesAdjacent

\* the stream of a stream_chat call delivered text
DeliveredText(call) ==
  (call.auto /\ call.cl.final_content # <<>>) \/ (~call.auto /\ call.cl.full_response # <<>>)

\* C32 (amended): interleaving two stream_chat generators of one client reaches,
\* after both are drained, a state in which the two user messages are adjacent and the
\* second turn's request held the first turn's user message without its reply; with
\* the turns run one at a time that state is unreachable on the manual path, and on
\* the auto-execute path when the first turn's stream delivered text (a drained
\* auto-execute turn without text and tool calls records no assistant message).
C32_ExternalSerialization ==
  (/\ TwoStreamsDrained /\ OneAtATime
   /\ (client[1].auto => DeliveredText(client[1])))
  => ~UserMessagesAdjacent

\* the second generator was started before the first was drained, both delivered
\* text, and the history reads user, user, assistant, assistant
C32_Witness ==
  /\ TwoStreamsDrained
  /\ client[2].overlapped
  /\ DeliveredText(client[1]) /\ DeliveredText(client[2])
  /\ UserMessagesAdjacent
  /\ conversation[Len(conversation)].role = "assistant"
  /\ conversation[Len(conversation) - 1].role = "assistant"

\* C33: in every backend request issued by generate_response and stream_response the
\* think flag, when set in the parameters, is the separate top-level think argument
\* and the options map holds no think key; a fallback retry from which thinking was
\* stripped carries no think setting anywhere in the request.
C33_ThinkOutsideOptions ==
  \A i \in 1..Len(requests) :
    (op \in Ops /\ HasThink(parameters))
    => /\ "think" \notin DOMAIN requests[i].options
       /\ requests[i].think \in {None, Some(parameters["think"])}
       /\ requests[1].think = Some(parameters["think"])

\* C34: when the backend's streaming call succeeds but produces zero chunks (no
\* request of the call failed and nothing was yielded), stream_response yields zero
\* elements and terminates normally, no exception reaches the consumer, and no
\* fallback request is issued.
C34_EmptyStream ==
  (/\ op = "stream_response"
   /\ pc = "done"
   /\ failures = <<>>
   /\ yielded = <<>>)
  => /\ raised = None
     /\ Len(requests) = 1

\* every retry carries the model, messages and options of the first attempt and a
\* strict subset of the feature flags of the attempt before it
MonotoneRetries ==
  \A i \in 2..Len(requests) :
    /\ requests[i].model = requests[1].model
    /\ requests[i].messages = requests[1].messages
    /\ requests[i].options = requests[1].options
    /\ Present(requests[i]) \subseteq Present(requests[i - 1])
    /\ Present(requests[i]) # Present(requests[i - 1])

\* C35: a single generate_response call issues at most three backend requests and,
\* the backend answering each request, always terminates with a reply or an
\* exception; every retry carries the same model, messages and options as the first
\* attempt and a strict subset of the previous attempt's feature flags.
C35_BoundedMonotoneFallback ==
  /\ [](op = "generate_response" => Len(requests) <= 3 /\ MonotoneRetries)
  /\ <>(pc = "done" /\ (returned # None \/ raised # None))

\* three requests were issued: full, without tools, without both
C35_Witness ==
  /\ op = "generate_response" /\ pc = "done"
  /\ Len(requests) = 3
  /\ Present(requests[1]) = {"tools", "think"}
  /\ Present(requests[2]) = {"think"}
  /\ Present(requests[3]) = {}

\* C36: for a tool name registered through register_mcp_executor whose executor's
\* execute_tool_call completes without raising, ToolRegistry.execute_tool_call returns
\* a ToolResult with error = None; the MCP path never raises to its caller.
C36_McpExecutedTools ==
  (/\ op = "execute_tool_call_mcp" /\ pc = "done"
   /\ executed[1].function.name \in tools.mcp_executors)
  => /\ raised = None
     /\ Len(tool_results) = 1
     /\ replies[1].ok => tool_results[1].error = None

\* the step is a client.chat call that raises
ChatRaisesStep ==
  /\ op = "client"
  /\ Len(client') = Len(client) + 1
  /\ client'[Len(client')].call = "chat"
  /\ client'[Len(client')].pc = "raised"

\* the request of the i-th call of the client
RequestOf(i) == requests[client[i].request]

\* C37: when client.chat raises because the backend request failed, the conversation
\* is the history before the call plus exactly the new user message, with no
\* assistant or tool message; a chat call that follows sends a history in which the
\* two user messages are adjacent.
C37_StateAfterFailedTurn ==
  /\ [][ChatRaisesStep
          => conversation' = Append(conversation,
                                    Message("user", client'[Len(client')].message,
                                            None, None))]_vars
  /\ [](\A i \in 1..(Len(client) - 1) :
          (/\ op = "client"
           /\ client[i].call = "chat" /\ client[i].pc = "raised" /\ ~client[i].overlapped
           /\ client[i + 1].call = "chat")
          => LET sent == RequestOf(i + 1).messages IN
             /\ Len(sent) >= 2
             /\ sent[Len(sent) - 1] = MessageToDict(Message("user", client[i].message, None, None))
             /\ sent[Len(sent)] = MessageToDict(Message("user", client[i + 1].message, None, None)))

\* a chat call raised, the next chat call returned: user, user, assistant
C37_Witness ==
  /\ op = "client"
  /\ Len(client) = 2
  /\ client[1].call = "chat" /\ client[1].pc = "raised"
  /\ client[2].call = "chat" /\ client[2].pc = "returned"
  /\ Len(conversation) = 3
  /\ conversation[1].role = "user" /\ conversation[2].role = "user"
  /\ conversation[3].role = "assistant"
  /\ Len(requests[2].messages) = 2

\* every call made on the client is a chat call that returned or a stream_chat call
\* without tools that was drained, and the calls were run one at a time
CompletedTurnsOnly ==
  /\ op = "client"
  /\ OneAtATime
  /\ \A i \in 1..Len(client) :
       \/ client[i].call = "chat" /\ client[i].pc = "returned"
       \/ client[i].call = "stream_chat" /\ ~client[i].auto /\ client[i].pc = "drained"

\* C38: after any sequence of successfully completed client.chat calls and fully
\* drained client.stream_chat calls without tools, run one at a time, the history is
\* the optional initial system message followed by strictly alternating user and
\* assistant messages, exactly one pair per call in call order, and each request sent
\* to the backend ended with that turn's user message.
C38_TurnAlternation ==
  CompletedTurnsOnly
  => LET n == Len(client)
         k == Len(conversation) - 2 * n IN
     /\ k \in {0, 1}
     /\ k = 1 => conversation[1].role = "system"
     /\ Len(requests) = n
     /\ \A i \in 1..n :
          /\ conversation[k + 2 * i - 1] = Message("user", client[i].message, None, None)
          /\ conversation[k + 2 * i].role = "assistant"
          /\ client[i].call = "stream_chat"
               => conversation[k + 2 * i].content = client[i].cl.full_response
          /\ RequestOf(i).messages =
               get_message_history(SubSeq(conversation, 1, k + 2 * i - 1))

\* a chat call, a drained stream_chat call whose chunks carried no text, and another
\* chat call after a system message: seven messages
C38_Witness ==
  /\ CompletedTurnsOnly
  /\ Len(client) = 3
  /\ client[1].call = "chat" /\ client[2].call = "stream_chat" /\ client[3].call = "chat"
  /\ client[2].cl.full_response = <<>>
  /\ Len(conversation) = 7
  /\ conversation[1].role = "system"

\* the tool-result responses yielded so far
ToolResultResponses == { i \in 1..Len(yielded) : yielded[i].tool_results # None }

\* C39: in stream_response_with_tool_execution no tool runs before the first stream
\* is exhausted, and the k-th tool call runs only when the consumer asks for the
\* element after the (k-1)-th tool-result response: when the j-th tool-result response
\* has been yielded exactly j tools have run, in call order, so a consumer that stops
\* there leaves the remaining calls unexecuted and the second request unsent.
C39_LazyToolExecution ==
  /\ [](op = "stream_response_with_tool_execution"
        => /\ Len(executed) = Cardinality(ToolResultResponses)
           /\ Len(executed) <= Len(collected_tool_calls)
           /\ executed = SubSeq(collected_tool_calls, 1, Len(executed))
           /\ executed # <<>> => (phase = 2 \/ pc = "s_execute")
           /\ \A i \in ToolResultResponses : i > FirstPassLen
           /\ Len(executed) < Len(collected_tool_calls)
              => \A i \in 1..Len(requests) : requests[i].messages = requests[1].messages)
  /\ [][(op = "stream_response_with_tool_execution" /\ executed' # executed)
        => /\ Len(executed') = Len(executed) + 1
           /\ Len(yielded') = Len(yielded) + 1
           /\ yielded'[Len(yielded')].tool_results # None
           /\ UNCHANGED requests]_vars

\* the consumer holds the first of two tool-result responses: one tool has run, one
\* has not, and only the first request was sent
C39_Witness ==
  /\ op = "stream_response_with_tool_execution"
  /\ pc = "s_execute"
  /\ Len(collected_tool_calls) = 2
  /\ Len(executed) = 1
  /\ yielded[Len(yielded)].tool_results # None
  /\ Len(requests) = 1

\* the messages of a history that are not system messages, in order
NonSystem(messages) == SelectSeq(messages, LAMBDA msg : msg.role # "system")

\* the step of a set_system_message call
SetSystemMessageStep ==
  /\ op = "client"
  /\ Len(client') = Len(client) + 1
  /\ client'[Len(client')].call = "set_system_message"

\* C40: after set_system_message(m), from any reachable history, the conversation
\* holds exactly one system message, its content is m, the other messages keep their
\* relative order, and the system message is the last message, not the first.
C40_SetSystemMessage ==
  [][SetSystemMessageStep
     => LET n == Len(conversation') IN
        /\ n = Len(NonSystem(conversation)) + 1
        /\ conversation'[n] = Message("system", client'[Len(client')].message, None, None)
        /\ SubSeq(conversation', 1, n - 1) = NonSystem(conversation)
        /\ NonSystem(conversation') = NonSystem(conversation)]_vars

\* a system message "s" at the head of a history with a completed turn was replaced
\* by "t", which now stands after the turn's reply
C40_Witness ==
  /\ op = "client"
  /\ Len(client) = 2
  /\ client[1].pc \in {"returned", "drained"}
  /\ client[2].call = "set_system_message"
  /\ client[2].message = <<"t">>
  /\ Len(conversation) = 3
  /\ conversation[1].role = "user"
  /\ conversation[2].role = "assistant"
  /\ conversation[3] = Message("system", <<"t">>, None, None)
  /\ Len(requests) = 1
  /\ requests[1].messages[1].role = "system"

====
